---- MODULE Spec2Model ----
(***************************************************************************)
(* Model of the ChatGPT Prompt Flow Images extension.                      *)
(*                                                                         *)
(* Two state machines are modelled:                                        *)
(*  - the content script's prompt queue (extension/contentScript.js):      *)
(*    the onMessage listener, processPrompts, ensureComposer, sendPrompt,  *)
(*    waitForSendButton and waitForCompletion, one action per task the     *)
(*    JavaScript event loop runs (specification Spec);                     *)
(*  - the cooldown retry wrapper withImageCooldownRetry                    *)
(*    (utils/imageCooldown.ts), one action per resumption of the async     *)
(*    function (specification RetrySpec).  The imageCooldown.ts line       *)
(*    numbers in the comments are those of src/unnamed/part_000.           *)
(***************************************************************************)
EXTENDS Integers, Sequences, FiniteSets, TLC

\* ---------------------------------------------------------------- bounds
MaxTriggers == 2
MaxPrompts == 2
MaxAttemptsBound == 3

\* ------------------------------------------- constants of contentScript.js
EnsureMaxAttempts == 10
EnsureSleepMs == 500
CompletionTimeoutMs == 5 * 60 * 1000
SettleMs == 500
PollMs == 1000
SendButtonTimeoutMs == 2000
SendButtonPollMs == 100
InjectSleepMs == 150
EnterSleepMs == 300
ItemSleepMs == 500

ErrAlreadyRunning == "A prompt queue is already running."
ErrComposer == "Could not locate the ChatGPT composer. Make sure the DALL-E conversation is open."
ErrSendButton == "Send button not found. The ChatGPT UI might have changed."
ErrTimeout == "Timed out while waiting for DALL-E to finish."
ErrType == "Cannot read properties of undefined (reading 'length')"

\* The prompt lists a trigger may carry.  The content script never inspects
\* a prompt, so a list is one of pairwise different prompts (its order can be
\* told) or one that repeats a single prompt (duplicates are allowed).
Prompts == <<"a", "b", "c", "d", "e">>

PromptLists ==
    {SubSeq(Prompts, 1, n) : n \in 0..MaxPrompts}
    \cup {[i \in 1..n |-> Prompts[1]] : n \in 2..MaxPrompts}

\* setTimeout never fires early; it may fire late.  These are the delays, in
\* ms, by which a timer may overshoot.
LateMs == {0, 500}

TriggerIds == 1..MaxTriggers

IsPrefix(s, t) == Len(s) <= Len(t) /\ \A i \in 1..Len(s) : s[i] = t[i]

VARIABLES
    isProcessing,   \* contentScript.js:1, the single-flight flag
    received,       \* number of START_PROMPT_QUEUE messages delivered so far
    run,            \* run[t]: the processPrompts activation started by trigger t
    replies,        \* replies[t]: the sendResponse calls made for trigger t
    rOpts,          \* withImageCooldownRetry: the options of the call
    rpc,            \* withImageCooldownRetry: where the call is suspended
    attempt,        \* withImageCooldownRetry: the loop variable
    inTry,          \* withImageCooldownRetry: awaited fallback() is inside the try block
    calls,          \* attempts the operation was invoked with, in order
    outcomes,       \* how each invocation of the operation settled
    waits,          \* durations handed to the wait strategy, in order
    cooldownEvents, \* events handed to onCooldown, in order
    fallbackCalls,  \* number of invocations of the fallback
    fallbackOutcomes, \* how each invocation of the fallback settled
    result,         \* how the call settled
    w,              \* one waitForCompletion call observed on its own
    s,              \* one sendPrompt call observed on its own
    other,          \* a second withImageCooldownRetry call, suspended at an await
    deliveries,     \* how the deliveries of the progress notifications went
    qry             \* one call of a DOM query or of the classifier, with its result

queueVars == <<isProcessing, received, run, replies>>
retryVars == <<rOpts, rpc, attempt, inTry, calls, outcomes, waits, cooldownEvents,
               fallbackCalls, fallbackOutcomes, result>>
waitVars == <<w>>
sendVars == <<s>>
auxVars == <<other, deliveries, qry>>
vars == <<queueVars, retryVars, waitVars, sendVars, auxVars>>

\* ===================================================== the prompt queue ==

\* Positions of a run whose next step is a continuation of the task (or
\* microtask) in progress: no message and no timer is handled before it runs.
SyncPcs == {"ensureProbe", "loopHead", "inject", "btnLoop", "afterSend",
            "afterWait", "finally", "settled"}

\* Positions of a run suspended on a sleep() timer.
TimerPcs == {"ensureSleep", "waitSettle", "waitPoll", "injectSleep",
             "btnSleep", "enterSleep", "itemSleep"}

\* The record of a trigger that has not started a run (or whose run is over
\* and its locals gone).
NoRun(pcv) ==
    [pc |-> pcv, hasPrompts |-> TRUE, prompts |-> <<>>, index |-> 0,
     ctx |-> "init", attempt |-> 0, elapsed |-> 0, phase |-> "primary",
     sent |-> <<>>, waited |-> 0, notes |-> <<>>, outcome |-> "none"]

\* Run t may take a step: no other run is in the middle of a task.
Ready(t) == \A u \in TriggerIds \ {t} : run[u].pc \notin SyncPcs

\* The event loop is between tasks.
BetweenTasks == \A u \in TriggerIds : run[u].pc \notin SyncPcs

OkReply == [ok |-> TRUE, error |-> ""]
ErrorReply(msg) == [ok |-> FALSE, error |-> msg]

\* Faulty variant: the progress text carries the zero-based loop index.
NoteZeroBased(r, ph) == [phase |-> ph, index |-> r.index, total |-> Len(r.prompts)]

\* notify(text): the progress text is kept as (phase, index + 1, total).
Note(r, ph) == [phase |-> ph, index |-> r.index + 1, total |-> Len(r.prompts)]

\* Faulty variant: the listener replies but falls through to processPrompts.
TriggerRejectedFallsThrough ==
    /\ received < MaxTriggers
    /\ BetweenTasks
    /\ isProcessing
    /\ received' = received + 1
    /\ replies' = [replies EXCEPT ![received + 1] = Append(@, ErrorReply(ErrAlreadyRunning))]
    /\ \E p \in PromptLists :
         run' = [run EXCEPT ![received + 1] = [NoRun("ensureProbe") EXCEPT !.prompts = p]]
    /\ UNCHANGED isProcessing

\* contentScript.js:355-357 - the listener's branch for a running queue; the
\* message's prompts are not read.
TriggerRejected ==
    /\ received < MaxTriggers
    /\ BetweenTasks
    /\ isProcessing
    /\ received' = received + 1
    /\ replies' = [replies EXCEPT ![received + 1] = Append(@, ErrorReply(ErrAlreadyRunning))]
    /\ run' = [run EXCEPT ![received + 1] = NoRun("rejected")]
    /\ UNCHANGED isProcessing

\* Faulty variant: the flag is not set in the task that tested it.
TriggerAcceptedFlagLate(p, h) ==
    /\ received < MaxTriggers
    /\ BetweenTasks
    /\ ~isProcessing
    /\ received' = received + 1
    /\ run' = [run EXCEPT ![received + 1] =
                  [NoRun("ensureProbe") EXCEPT !.prompts = p, !.hasPrompts = h]]
    /\ UNCHANGED <<isProcessing, replies>>

\* contentScript.js:359 and 335 - the listener calls processPrompts, which
\* sets the flag and enters ensureComposer before the task ends.
TriggerAccepted(p, h) ==
    /\ received < MaxTriggers
    /\ BetweenTasks
    /\ ~isProcessing
    /\ received' = received + 1
    /\ isProcessing' = TRUE
    /\ run' = [run EXCEPT ![received + 1] =
                  [NoRun("ensureProbe") EXCEPT !.prompts = p, !.hasPrompts = h]]
    /\ UNCHANGED replies

\* Faulty variant: the failure is recorded but the loop goes on with the next prompt.
ThrownContinue(r, msg) ==
    [r EXCEPT !.pc = "itemSleep", !.outcome = msg,
              !.attempt = 0, !.elapsed = 0, !.phase = "primary"]

\* A throw inside processPrompts' try block, in the run with locals r: control
\* goes to the finally; the locals of the function that threw are gone.
Thrown(r, msg) ==
    [r EXCEPT !.pc = "finally", !.outcome = msg,
              !.attempt = 0, !.elapsed = 0, !.phase = "primary"]

Throw(t, msg) == run' = [run EXCEPT ![t] = Thrown(run[t], msg)]

\* Faulty variant: an idle first read ends the wait, without the settle delay
\* and the second read.
WaitHeadNoSettle(r, busy) ==
    IF r.elapsed < CompletionTimeoutMs
    THEN [r EXCEPT !.pc = IF busy THEN "waitPoll" ELSE "returned", !.outcome = "ok"]
    ELSE Thrown(r, ErrTimeout)

\* Faulty variant: start is taken anew in every iteration, so that the
\* deadline test always sees an elapsed time of 0.
WaitHeadRestartsClock(r, busy) ==
    [r EXCEPT !.elapsed = 0, !.pc = IF busy THEN "waitPoll" ELSE "waitSettle"]

\* contentScript.js:322-323, 329 - the head of waitForCompletion's loop in the
\* run with locals r: the deadline test, the first isStreaming() read (busy)
\* and the sleep that follows it.
WaitHead(r, busy) ==
    IF r.elapsed < CompletionTimeoutMs
    THEN [r EXCEPT !.pc = IF busy THEN "waitPoll" ELSE "waitSettle"]
    ELSE Thrown(r, ErrTimeout)

\* Faulty variant: the run goes to its first prompt as soon as a composer is
\* found, without the initial waitForCompletion.
EnsureProbeSkipsIdle(t) ==
    /\ run[t].pc = "ensureProbe"
    /\ Ready(t)
    /\ IF run[t].attempt < EnsureMaxAttempts
       THEN \E found \in BOOLEAN :
              IF found
              THEN IF run[t].ctx = "init"
                   THEN run' = [run EXCEPT ![t].pc = "loopHead", ![t].ctx = "item",
                                           ![t].attempt = 0]
                   ELSE run' = [run EXCEPT ![t].pc = "inject", ![t].attempt = 0]
              ELSE run' = [run EXCEPT ![t].pc = "ensureSleep"]
       ELSE Throw(t, ErrComposer)
    /\ UNCHANGED <<isProcessing, received, replies>>

\* contentScript.js:173-180 - one iteration test of ensureComposer's loop and
\* its getComposer() lookup; the page decides whether a composer is found.
\* Found at the start of the run (line 337), waitForCompletion is entered
\* (line 338); found in sendPrompt (line 284), the prompt is injected.
EnsureProbe(t) ==
    /\ run[t].pc = "ensureProbe"
    /\ Ready(t)
    /\ IF run[t].attempt < EnsureMaxAttempts
       THEN \E found \in BOOLEAN :
              IF found
              THEN IF run[t].ctx = "init"
                   THEN \E busy \in BOOLEAN :
                          run' = [run EXCEPT ![t] =
                                     WaitHead([run[t] EXCEPT !.attempt = 0, !.elapsed = 0],
                                              busy)]
                   ELSE run' = [run EXCEPT ![t].pc = "inject", ![t].attempt = 0]
              ELSE run' = [run EXCEPT ![t].pc = "ensureSleep"]
       ELSE Throw(t, ErrComposer)
    /\ UNCHANGED <<isProcessing, received, replies>>

\* contentScript.js:178 - sleep(500) resolves, attempt++.
EnsureSleepDone(t) ==
    /\ run[t].pc = "ensureSleep"
    /\ Ready(t)
    /\ run' = [run EXCEPT ![t].pc = "ensureProbe", ![t].attempt = @ + 1]
    /\ UNCHANGED <<isProcessing, received, replies>>

\* waitForCompletion returns to its caller in processPrompts.
WaitReturn(t) ==
    IF run[t].ctx = "init"
    THEN run' = [run EXCEPT ![t].pc = "loopHead", ![t].ctx = "item", ![t].elapsed = 0]
    ELSE run' = [run EXCEPT ![t].pc = "afterWait", ![t].waited = @ + 1,
                            ![t].elapsed = 0]

\* contentScript.js:324-329 - the settle delay sleep(500) resolves and
\* isStreaming() is read a second time: idle returns, busy sleeps 1000.
WaitSettleDone(t) ==
    /\ run[t].pc = "waitSettle"
    /\ Ready(t)
    /\ \E late \in LateMs, busy \in BOOLEAN :
         IF busy
         THEN run' = [run EXCEPT ![t].pc = "waitPoll", ![t].elapsed = @ + SettleMs + late]
         ELSE WaitReturn(t)
    /\ UNCHANGED <<isProcessing, received, replies>>

\* contentScript.js:329, 322-323 - sleep(1000) resolves and the loop goes
\* round: deadline test and first isStreaming() read.
WaitPollDone(t) ==
    /\ run[t].pc = "waitPoll"
    /\ Ready(t)
    /\ \E late \in LateMs, busy \in BOOLEAN :
         run' = [run EXCEPT ![t] =
                    WaitHead([run[t] EXCEPT !.elapsed = @ + PollMs + late], busy)]
    /\ UNCHANGED <<isProcessing, received, replies>>

\* contentScript.js:339-342 - the for loop's test; for a further prompt the
\* Sending notification and the call of sendPrompt (which enters
\* ensureComposer); past the last prompt the try block ends normally.
LoopHead(t) ==
    /\ run[t].pc = "loopHead"
    /\ Ready(t)
    /\ IF ~run[t].hasPrompts
       THEN Throw(t, ErrType)
       ELSE IF run[t].index < Len(run[t].prompts)
       THEN run' = [run EXCEPT ![t].pc = "ensureProbe",
                               ![t].attempt = 0,
                               ![t].notes = Append(@, Note(run[t], "Sending")),
                               ![t].sent = Append(@, run[t].prompts[run[t].index + 1])]
       ELSE run' = [run EXCEPT ![t].pc = "finally", ![t].outcome = "ok"]
    /\ UNCHANGED <<isProcessing, received, replies>>

\* contentScript.js:285-287 - focus, setComposerValue, then sleep(150).
Inject(t) ==
    /\ run[t].pc = "inject"
    /\ Ready(t)
    /\ run' = [run EXCEPT ![t].pc = "injectSleep"]
    /\ UNCHANGED <<isProcessing, received, replies>>

\* contentScript.js:287-288 - sleep(150) resolves, waitForSendButton starts.
InjectSleepDone(t) ==
    /\ run[t].pc = "injectSleep"
    /\ Ready(t)
    /\ run' = [run EXCEPT ![t].pc = "btnLoop", ![t].elapsed = 0, ![t].phase = "primary"]
    /\ UNCHANGED <<isProcessing, received, replies>>

\* contentScript.js:145-152 and 289-300 - waitForSendButton's deadline test
\* and getSendButton() lookup, and what sendPrompt does with its result.
BtnLoop(t) ==
    /\ run[t].pc = "btnLoop"
    /\ Ready(t)
    /\ IF run[t].elapsed < SendButtonTimeoutMs
       THEN \E found \in BOOLEAN :
              IF found
              THEN run' = [run EXCEPT ![t].pc = "afterSend", ![t].elapsed = 0,
                                      ![t].phase = "primary"]
              ELSE run' = [run EXCEPT ![t].pc = "btnSleep"]
       ELSE IF run[t].phase = "primary"
            THEN run' = [run EXCEPT ![t].pc = "enterSleep", ![t].elapsed = 0]
            ELSE Throw(t, ErrSendButton)
    /\ UNCHANGED <<isProcessing, received, replies>>

\* Faulty variant: the poll sleep resolves but the wait counts its polls
\* against no deadline, the elapsed time being left where it was.
BtnSleepDoneNoDeadline(t) ==
    /\ run[t].pc = "btnSleep"
    /\ Ready(t)
    /\ run' = [run EXCEPT ![t].pc = "btnLoop"]
    /\ UNCHANGED <<isProcessing, received, replies>>

\* contentScript.js:150 - sleep(100) resolves.
BtnSleepDone(t) ==
    /\ run[t].pc = "btnSleep"
    /\ Ready(t)
    /\ \E late \in LateMs :
         run' = [run EXCEPT ![t].pc = "btnLoop", ![t].elapsed = @ + SendButtonPollMs + late]
    /\ UNCHANGED <<isProcessing, received, replies>>

\* contentScript.js:294-295 - sleep(300) after dispatchEnter resolves, the
\* retry waitForSendButton starts.
EnterSleepDone(t) ==
    /\ run[t].pc = "enterSleep"
    /\ Ready(t)
    /\ run' = [run EXCEPT ![t].pc = "btnLoop", ![t].elapsed = 0, ![t].phase = "retry"]
    /\ UNCHANGED <<isProcessing, received, replies>>

\* Faulty variant: the next step is taken without waiting for completion.
AfterSendNoWait(t) ==
    /\ run[t].pc = "afterSend"
    /\ Ready(t)
    /\ run' = [run EXCEPT ![t].pc = "afterWait",
                          ![t].notes = Append(@, Note(run[t], "Waiting"))]
    /\ UNCHANGED <<isProcessing, received, replies>>

\* contentScript.js:343-344 - sendPrompt returned: the Waiting notification,
\* then waitForCompletion is entered.
AfterSend(t) ==
    /\ run[t].pc = "afterSend"
    /\ Ready(t)
    /\ \E busy \in BOOLEAN :
         run' = [run EXCEPT ![t] =
                    WaitHead([run[t] EXCEPT !.elapsed = 0,
                                            !.notes = Append(@, Note(run[t], "Waiting"))],
                             busy)]
    /\ UNCHANGED <<isProcessing, received, replies>>

\* contentScript.js:345-346 - the Done notification, then sleep(500).
AfterWait(t) ==
    /\ run[t].pc = "afterWait"
    /\ Ready(t)
    /\ run' = [run EXCEPT ![t].pc = "itemSleep",
                          ![t].notes = Append(@, Note(run[t], "Done"))]
    /\ UNCHANGED <<isProcessing, received, replies>>

\* contentScript.js:346 and 339 - sleep(500) resolves, index++.
ItemSleepDone(t) ==
    /\ run[t].pc = "itemSleep"
    /\ Ready(t)
    /\ run' = [run EXCEPT ![t].pc = "loopHead", ![t].index = @ + 1]
    /\ UNCHANGED <<isProcessing, received, replies>>

\* Faulty variant: the flag is released on the normal path only (no finally).
FinallyOnSuccessOnly(t) ==
    /\ run[t].pc = "finally"
    /\ Ready(t)
    /\ isProcessing' = IF run[t].outcome = "ok" THEN FALSE ELSE isProcessing
    /\ run' = [run EXCEPT ![t].pc = "settled"]
    /\ UNCHANGED <<received, replies>>

\* contentScript.js:348-350 - the finally block.
Finally(t) ==
    /\ run[t].pc = "finally"
    /\ Ready(t)
    /\ isProcessing' = FALSE
    /\ run' = [run EXCEPT ![t].pc = "settled"]
    /\ UNCHANGED <<received, replies>>

\* Faulty variant: the reply is sent and the flag is left for a later task to release.
ReplyKeepsFlag(t) ==
    /\ run[t].pc = "settled"
    /\ Ready(t)
    /\ replies' = [replies EXCEPT ![t] =
                      Append(@, IF run[t].outcome = "ok" THEN OkReply
                                ELSE ErrorReply(run[t].outcome))]
    /\ run' = [run EXCEPT ![t] = NoRun("done")]
    /\ isProcessing' = TRUE
    /\ UNCHANGED received

\* contentScript.js:360-364 - the then / catch callback of the listener.
Reply(t) ==
    /\ run[t].pc = "settled"
    /\ Ready(t)
    /\ replies' = [replies EXCEPT ![t] =
                      Append(@, IF run[t].outcome = "ok" THEN OkReply
                                ELSE ErrorReply(run[t].outcome))]
    /\ run' = [run EXCEPT ![t] = NoRun("done")]
    /\ UNCHANGED <<isProcessing, received>>

QueueInit ==
    /\ isProcessing = FALSE
    /\ received = 0
    /\ run = [t \in TriggerIds |-> NoRun("unused")]
    /\ replies = [t \in TriggerIds |-> <<>>]

RetryIdle ==
    /\ rOpts = [maxAttempts |-> 0]
    /\ rpc = "off"
    /\ attempt = 0
    /\ inTry = FALSE
    /\ calls = <<>>
    /\ outcomes = <<>>
    /\ waits = <<>>
    /\ cooldownEvents = <<>>
    /\ fallbackCalls = 0
    /\ fallbackOutcomes = <<>>
    /\ result = [kind |-> "none"]

\* No waitForCompletion call and no sendPrompt call is observed on its own.
WaitIdle == w = [pc |-> "off"]
SendIdle == s = [pc |-> "off"]

\* No second retry call, no delivery and no query is observed.
AuxIdle ==
    /\ other = [rpc |-> "off"]
    /\ deliveries = {}
    /\ qry = [fn |-> "off"]

Init == QueueInit /\ RetryIdle /\ WaitIdle /\ SendIdle /\ AuxIdle

Next ==
    \/ TriggerRejected /\ UNCHANGED <<retryVars, waitVars, sendVars, auxVars>>
    \/ \E p \in PromptLists, h \in BOOLEAN :
         /\ (~h => p = <<>>)
         /\ TriggerAccepted(p, h)
         /\ UNCHANGED <<retryVars, waitVars, sendVars, auxVars>>
    \/ \E t \in TriggerIds : EnsureProbe(t) /\ UNCHANGED <<retryVars, waitVars, sendVars, auxVars>>
    \/ \E t \in TriggerIds : EnsureSleepDone(t) /\ UNCHANGED <<retryVars, waitVars, sendVars, auxVars>>
    \/ \E t \in TriggerIds : WaitSettleDone(t) /\ UNCHANGED <<retryVars, waitVars, sendVars, auxVars>>
    \/ \E t \in TriggerIds : WaitPollDone(t) /\ UNCHANGED <<retryVars, waitVars, sendVars, auxVars>>
    \/ \E t \in TriggerIds : LoopHead(t) /\ UNCHANGED <<retryVars, waitVars, sendVars, auxVars>>
    \/ \E t \in TriggerIds : Inject(t) /\ UNCHANGED <<retryVars, waitVars, sendVars, auxVars>>
    \/ \E t \in TriggerIds : InjectSleepDone(t) /\ UNCHANGED <<retryVars, waitVars, sendVars, auxVars>>
    \/ \E t \in TriggerIds : BtnLoop(t) /\ UNCHANGED <<retryVars, waitVars, sendVars, auxVars>>
    \/ \E t \in TriggerIds : BtnSleepDone(t) /\ UNCHANGED <<retryVars, waitVars, sendVars, auxVars>>
    \/ \E t \in TriggerIds : EnterSleepDone(t) /\ UNCHANGED <<retryVars, waitVars, sendVars, auxVars>>
    \/ \E t \in TriggerIds : AfterSend(t) /\ UNCHANGED <<retryVars, waitVars, sendVars, auxVars>>
    \/ \E t \in TriggerIds : AfterWait(t) /\ UNCHANGED <<retryVars, waitVars, sendVars, auxVars>>
    \/ \E t \in TriggerIds : ItemSleepDone(t) /\ UNCHANGED <<retryVars, waitVars, sendVars, auxVars>>
    \/ \E t \in TriggerIds : Finally(t) /\ UNCHANGED <<retryVars, waitVars, sendVars, auxVars>>
    \/ \E t \in TriggerIds : Reply(t) /\ UNCHANGED <<retryVars, waitVars, sendVars, auxVars>>

Spec == Init /\ [][Next]_vars

\* One queue run with fair timers and a fair event loop.  The first trigger
\* starts the run, the triggers that arrive while it is in progress are
\* rejected, and a step that stays possible (a timer that has expired, a
\* continuation that is ready, a reply to be sent) is eventually taken.
FairNext ==
    \/ TriggerRejected /\ UNCHANGED <<retryVars, waitVars, sendVars, auxVars>>
    \/ \E p \in PromptLists, h \in BOOLEAN :
         /\ (~h => p = <<>>)
         /\ received = 0
         /\ TriggerAccepted(p, h)
         /\ UNCHANGED <<retryVars, waitVars, sendVars, auxVars>>
    \/ \E t \in TriggerIds : EnsureProbe(t) /\ UNCHANGED <<retryVars, waitVars, sendVars, auxVars>>
    \/ \E t \in TriggerIds : EnsureSleepDone(t) /\ UNCHANGED <<retryVars, waitVars, sendVars, auxVars>>
    \/ \E t \in TriggerIds : WaitSettleDone(t) /\ UNCHANGED <<retryVars, waitVars, sendVars, auxVars>>
    \/ \E t \in TriggerIds : WaitPollDone(t) /\ UNCHANGED <<retryVars, waitVars, sendVars, auxVars>>
    \/ \E t \in TriggerIds : LoopHead(t) /\ UNCHANGED <<retryVars, waitVars, sendVars, auxVars>>
    \/ \E t \in TriggerIds : Inject(t) /\ UNCHANGED <<retryVars, waitVars, sendVars, auxVars>>
    \/ \E t \in TriggerIds : InjectSleepDone(t) /\ UNCHANGED <<retryVars, waitVars, sendVars, auxVars>>
    \/ \E t \in TriggerIds : BtnLoop(t) /\ UNCHANGED <<retryVars, waitVars, sendVars, auxVars>>
    \/ \E t \in TriggerIds : BtnSleepDone(t) /\ UNCHANGED <<retryVars, waitVars, sendVars, auxVars>>
    \/ \E t \in TriggerIds : EnterSleepDone(t) /\ UNCHANGED <<retryVars, waitVars, sendVars, auxVars>>
    \/ \E t \in TriggerIds : AfterSend(t) /\ UNCHANGED <<retryVars, waitVars, sendVars, auxVars>>
    \/ \E t \in TriggerIds : AfterWait(t) /\ UNCHANGED <<retryVars, waitVars, sendVars, auxVars>>
    \/ \E t \in TriggerIds : ItemSleepDone(t) /\ UNCHANGED <<retryVars, waitVars, sendVars, auxVars>>
    \/ \E t \in TriggerIds : Finally(t) /\ UNCHANGED <<retryVars, waitVars, sendVars, auxVars>>
    \/ \E t \in TriggerIds : Reply(t) /\ UNCHANGED <<retryVars, waitVars, sendVars, auxVars>>

FairSpec == Init /\ [][FairNext]_vars /\ WF_vars(FairNext)

\* ================================================ withImageCooldownRetry ==

\* Number.NaN, kept apart from every number the model computes with.
NaN == -999999

\* Texts that occur in payloads and error messages.
LimitText == "You've hit the image-generation limit"
OtherErrorText == "Other error"
CooldownDetectedText == "Image generation cooldown detected."
FailedAfterCooldownText == "Image generation failed after cooldown handling."
Undefined == "undefined"

\* imageCooldown.ts DEFAULT_COOLDOWN_PATTERNS, each regular expression
\* evaluated on the texts above: only the limit phrase matches one
\* (/you['’`]?ve hit the image-generation limit/i and /you['’`]?ve hit the.*limit/i).
DEFAULT_COOLDOWN_PATTERNS ==
    <<"hit the image-generation limit", "image generation limit reached",
      "hit the.*limit", "please wait .* before sending.*image",
      "too many image generation requests",
      "image generation requests are temporarily blocked", "cooldown period">>

\* Further texts the detectors are tried on, and the custom pattern list of
\* the test 'supports custom cooldown patterns'.
DetectTexts ==
    [sentence |-> "You've hit the image-generation limit.",
     allGood |-> "All good here.",
     custom |-> "Custom cooldown triggered!",
     period |-> "The cooldown period has not ended"]
CustomPatterns == <<"custom cooldown triggered">>

\* pattern.test(text) for the patterns and texts of the model; every pattern
\* carries the flag i only, so that test() keeps no state between calls.
PatternTest(pattern, text) ==
    \/ /\ text \in {LimitText, DetectTexts.sentence}
       /\ pattern \in {"hit the image-generation limit", "hit the.*limit"}
    \/ text = DetectTexts.period /\ pattern = "cooldown period"
    \/ text = DetectTexts.custom /\ pattern = "custom cooldown triggered"

\* Faulty variant: the patterns supplied are tried in addition to the defaults.
isImageCooldownMessageWithDefaults(text, patterns) ==
    IF text \in {Undefined, ""} THEN FALSE
    ELSE \E i \in 1..Len(patterns \o DEFAULT_COOLDOWN_PATTERNS) :
           PatternTest((patterns \o DEFAULT_COOLDOWN_PATTERNS)[i], text)

\* isImageCooldownMessage(text, patterns)
isImageCooldownMessage(text, patterns) ==
    IF text \in {Undefined, ""} THEN FALSE
    ELSE \E i \in 1..Len(patterns) : PatternTest(patterns[i], text)

\* Payloads.  A string payload is [type |-> "string", text |-> ...]; an object
\* payload keeps the properties extractAssistantContent reads: choices (with
\* choicesIsArray for Array.isArray), message and error; every other payload
\* (null, undefined, a number) is [type |-> "other"].  A property that is to
\* hold a string is Undefined when it is absent or holds something else.  A
\* choice is [type |-> "null"] when it is not an object; message.truthy is
\* FALSE for an absent message.
NoMessage == [truthy |-> FALSE, content |-> Undefined, text |-> Undefined]
NoError == [type |-> "undefined"]

\* The response {choices: [{message: {content}}]}, and, for content
\* Undefined, a response such as {data: ...}.
Response(content) ==
    [type |-> "object",
     choicesIsArray |-> content # Undefined,
     choices |-> IF content = Undefined THEN <<>>
                 ELSE <<[type |-> "object",
                         message |-> [truthy |-> TRUE, content |-> content,
                                      text |-> Undefined],
                         text |-> Undefined]>>,
     message |-> Undefined,
     error |-> NoError]
\* A thrown Error with its message.
ErrorValue(message) == [type |-> "Error", text |-> message]
\* new ImageCooldownError(message, {source, payload})
ImageCooldownError(message, source, payload) ==
    [type |-> "ImageCooldownError", text |-> message, source |-> source,
     payload |-> payload]

RECURSIVE ChoicesContent(_, _)
\* imageCooldown.ts extractAssistantContent, the loop over the choices from
\* the i-th on: Undefined when the loop ends without a return.
ChoicesContent(choices, i) ==
    IF i > Len(choices) THEN Undefined
    ELSE LET choice == choices[i]
         IN  IF choice.type # "object" THEN ChoicesContent(choices, i + 1)
             ELSE IF choice.message.truthy /\ choice.message.content # Undefined
                  THEN choice.message.content
             ELSE IF choice.message.truthy /\ choice.message.text # Undefined
                  THEN choice.message.text
             ELSE IF choice.text # Undefined THEN choice.text
             ELSE ChoicesContent(choices, i + 1)

\* What follows the loop over the choices: the top-level message, the
\* message of an error object, a string error.
TopLevelContent(payload) ==
    IF payload.message # Undefined THEN payload.message
    ELSE IF payload.error.type = "object" /\ payload.error.message # Undefined
         THEN payload.error.message
    ELSE IF payload.error.type = "string" THEN payload.error.text
    ELSE Undefined

\* Faulty variant: the top-level fields are read before the choices.
extractAssistantContentTopFirst(payload) ==
    IF payload.type = "string" THEN payload.text
    ELSE IF payload.type = "object"
    THEN LET top == TopLevelContent(payload)
             found == IF payload.choicesIsArray
                      THEN ChoicesContent(payload.choices, 1) ELSE Undefined
         IN  IF top # Undefined THEN top ELSE found
    ELSE Undefined

\* imageCooldown.ts extractAssistantContent(payload)
extractAssistantContent(payload) ==
    IF payload.type = "string" THEN payload.text
    ELSE IF payload.type = "object"
    THEN LET found == IF payload.choicesIsArray
                      THEN ChoicesContent(payload.choices, 1) ELSE Undefined
         IN  IF found # Undefined THEN found ELSE TopLevelContent(payload)
    ELSE Undefined

\* isImageCooldownResponse(response)
isImageCooldownResponse(response) ==
    isImageCooldownMessage(extractAssistantContent(response), DEFAULT_COOLDOWN_PATTERNS)

\* Faulty variant: the nested response is not looked at.
isImageCooldownErrorMessageOnly(error) ==
    IF error.type = "other" THEN FALSE
    ELSE isImageCooldownMessage(error.text, DEFAULT_COOLDOWN_PATTERNS)

\* isImageCooldownError(error).  A falsy error is [type |-> "other"], a
\* string error [type |-> "string", text |-> ...]; an object has its message
\* in text (Undefined when it has no string message); an object of type
\* "object" also has response, with truthy and data for error.response and
\* error.response.data; Error and ImageCooldownError objects have none.
isImageCooldownError(error) ==
    IF error.type = "other" THEN FALSE
    ELSE IF error.type = "string"
    THEN isImageCooldownMessage(error.text, DEFAULT_COOLDOWN_PATTERNS)
    ELSE IF isImageCooldownMessage(error.text, DEFAULT_COOLDOWN_PATTERNS) THEN TRUE
    ELSE IF error.type = "object" /\ error.response.truthy
         THEN isImageCooldownResponse(error.response.data)
    ELSE FALSE

\* The detectors a caller may configure: the default, or a custom predicate
\* (one that accepts everything, one that accepts nothing).
DetectorKinds == {"default", "always", "never"}

\* options.detector applied to a returned value
Detector(v) ==
    CASE rOpts.detector = "default" -> isImageCooldownResponse(v)
      [] rOpts.detector = "always" -> TRUE
      [] OTHER -> FALSE

\* options.errorDetector applied to a caught error
ErrorDetector(e) ==
    CASE rOpts.errorDetector = "default" -> isImageCooldownError(e)
      [] rOpts.errorDetector = "always" -> TRUE
      [] OTHER -> FALSE

Max(a, b) == IF a >= b THEN a ELSE b

\* normalizeJitterRange(range)
normalizeJitterRange(range) ==
    IF range[1] = NaN \/ range[2] = NaN THEN <<0, 0>>
    ELSE IF range[2] < range[1] THEN <<range[2], range[1]>>
    ELSE <<Max(0, range[1]), Max(0, range[2])>>

\* The values Math.random() * jitterRange can take, as whole milliseconds.
RandomBelow(jitterRange) == 0..(jitterRange - 1)

\* computeWaitTime(baseDelayMs, minJitterMs, maxJitterMs), rnd being the
\* value of Math.random() * jitterRange
computeWaitTime(baseDelayMs, minJitterMs, maxJitterMs, rnd) ==
    LET jitterRange == Max(0, maxJitterMs - minJitterMs)
        jitter == IF jitterRange > 0 THEN rnd + minJitterMs ELSE minJitterMs
    IN  baseDelayMs + jitter

\* The inputs of a call.
BaseDelays == {0, 60}
JitterRanges == {<<0, 0>>, <<5, 7>>, <<7, 5>>, <<-2, -4>>, <<NaN, 3>>}
\* imageCooldown.test.ts:130 - the fallback resolves with {data: 'fallback-image'},
\* an object without choices, message or error.
FallbackValue == Response(Undefined)

\* How an invocation of the operation may settle.
OpOutcomes ==
    {[kind |-> "return", value |-> Response(c)] : c \in {LimitText, Undefined}}
    \cup {[kind |-> "throw", value |-> ErrorValue(m)] : m \in {LimitText, OtherErrorText}}

\* How an invocation of the fallback may settle.
FallbackOutcomes ==
    {[kind |-> "return", value |-> FallbackValue]}
    \cup {[kind |-> "throw", value |-> ErrorValue(m)] : m \in {LimitText, OtherErrorText}}

RetryOptions ==
    [maxAttempts : 0..MaxAttemptsBound, baseDelayMs : BaseDelays,
     jitterMsRange : JitterRanges, detector : DetectorKinds,
     errorDetector : DetectorKinds, fallback : BOOLEAN, onCooldown : BOOLEAN]

\* Faulty variant: the last attempt is taken for one more to come.
ExhaustedOffByOne(a) == a > rOpts.maxAttempts

\* imageCooldown.ts:567, 594, 601 - attempt >= maxAttempts
Exhausted(a) == a >= rOpts.maxAttempts

\* imageCooldown.ts:562-564 and 616 - the loop test; a further attempt
\* invokes the operation, the end of the loop throws the generic error.
LoopTest(a) ==
    /\ attempt' = a
    /\ IF a <= rOpts.maxAttempts
       THEN /\ calls' = Append(calls, a)
            /\ rpc' = "request"
            /\ result' = result
       ELSE /\ calls' = calls
            /\ rpc' = "done"
            /\ result' = [kind |-> "throw",
                          value |-> ImageCooldownError(FailedAfterCooldownText, Undefined,
                                                       [type |-> "other"])]

\* imageCooldown.ts:588, 591, 602 - the call settles.
Settle(kind, v) ==
    /\ rpc' = "done"
    /\ result' = [kind |-> kind, value |-> v]
    /\ UNCHANGED <<waits, cooldownEvents, fallbackCalls, inTry>>

\* imageCooldown.ts:572, 598 - fallback() is invoked and awaited.
CallFallback(tryBlock) ==
    /\ rpc' = "fallback"
    /\ fallbackCalls' = fallbackCalls + 1
    /\ inTry' = tryBlock
    /\ UNCHANGED <<waits, cooldownEvents, result>>

\* Faulty variant: the event is emitted but the wait strategy is never called.
RetryNoWait(source, payload) ==
    /\ waits' = waits
    /\ cooldownEvents' =
          IF rOpts.onCooldown
          THEN Append(cooldownEvents,
                      [attempt |-> attempt, waitMs |-> rOpts.baseDelayMs,
                       source |-> source, payload |-> payload])
          ELSE cooldownEvents
    /\ rpc' = "wait"
    /\ UNCHANGED <<fallbackCalls, inTry, result>>

\* Faulty variant: the wait time is computed once for the event and once more
\* for the wait strategy, each with its own random jitter.
RetryRecomputesWait(source, payload) ==
    /\ \E rnd, rnd2 \in IF normalizeJitterRange(rOpts.jitterMsRange)[2]
                             > normalizeJitterRange(rOpts.jitterMsRange)[1]
                        THEN RandomBelow(normalizeJitterRange(rOpts.jitterMsRange)[2]
                                           - normalizeJitterRange(rOpts.jitterMsRange)[1])
                        ELSE {0} :
         LET nr == normalizeJitterRange(rOpts.jitterMsRange)
         IN  /\ waits' = Append(waits, computeWaitTime(rOpts.baseDelayMs, nr[1], nr[2], rnd))
             /\ cooldownEvents' =
                   IF rOpts.onCooldown
                   THEN Append(cooldownEvents,
                               [attempt |-> attempt,
                                waitMs |-> computeWaitTime(rOpts.baseDelayMs, nr[1], nr[2], rnd2),
                                source |-> source, payload |-> payload])
                   ELSE cooldownEvents
    /\ rpc' = "wait"
    /\ UNCHANGED <<fallbackCalls, inTry, result>>

\* Faulty variant: onCooldown is called on the response path only.
RetrySilentOnError(source, payload) ==
    /\ \E rnd \in IF normalizeJitterRange(rOpts.jitterMsRange)[2]
                       > normalizeJitterRange(rOpts.jitterMsRange)[1]
                  THEN RandomBelow(normalizeJitterRange(rOpts.jitterMsRange)[2]
                                     - normalizeJitterRange(rOpts.jitterMsRange)[1])
                  ELSE {0} :
         LET nr == normalizeJitterRange(rOpts.jitterMsRange)
             waitMs == computeWaitTime(rOpts.baseDelayMs, nr[1], nr[2], rnd)
         IN  /\ waits' = Append(waits, waitMs)
             /\ cooldownEvents' =
                   IF rOpts.onCooldown /\ source = "response"
                   THEN Append(cooldownEvents,
                               [attempt |-> attempt, waitMs |-> waitMs,
                                source |-> source, payload |-> payload])
                   ELSE cooldownEvents
    /\ rpc' = "wait"
    /\ UNCHANGED <<fallbackCalls, inTry, result>>

\* imageCooldown.ts:581-584, 608-611 - the wait is computed, the event is
\* handed to onCooldown and the wait strategy is started.
Retry(source, payload) ==
    /\ \E rnd \in IF normalizeJitterRange(rOpts.jitterMsRange)[2]
                       > normalizeJitterRange(rOpts.jitterMsRange)[1]
                  THEN RandomBelow(normalizeJitterRange(rOpts.jitterMsRange)[2]
                                     - normalizeJitterRange(rOpts.jitterMsRange)[1])
                  ELSE {0} :
         LET nr == normalizeJitterRange(rOpts.jitterMsRange)
             waitMs == computeWaitTime(rOpts.baseDelayMs, nr[1], nr[2], rnd)
         IN  /\ waits' = Append(waits, waitMs)
             /\ cooldownEvents' =
                   IF rOpts.onCooldown
                   THEN Append(cooldownEvents,
                               [attempt |-> attempt, waitMs |-> waitMs,
                                source |-> source, payload |-> payload])
                   ELSE cooldownEvents
    /\ rpc' = "wait"
    /\ UNCHANGED <<fallbackCalls, inTry, result>>

\* Faulty variant: every caught error is handled as a cooldown.
CatchRetriesAll(error) ==
    IF rOpts.fallback /\ Exhausted(attempt) THEN CallFallback(FALSE)
    ELSE IF Exhausted(attempt)
         THEN Settle("throw", ImageCooldownError(CooldownDetectedText, "error", error))
    ELSE Retry("error", error)

\* imageCooldown.ts:589-612 - the catch block.
Catch(error) ==
    IF ~ErrorDetector(error) THEN Settle("throw", error)
    ELSE IF rOpts.fallback /\ Exhausted(attempt) THEN CallFallback(FALSE)
    ELSE IF Exhausted(attempt)
         THEN Settle("throw", ImageCooldownError(CooldownDetectedText, "error", error))
    ELSE Retry("error", error)

\* Faulty variant: a cooldown response is always retried, the test for the
\* last attempt being left out on the response path.
OnValueAlwaysRetries(value) ==
    IF Detector(value) THEN Retry("response", value)
    ELSE Settle("return", value)

\* imageCooldown.ts:566-588 - the try block after the operation returned;
\* the ImageCooldownError of line 575 is thrown inside the try block and so
\* is caught by the catch block of the same iteration.
OnValue(value) ==
    IF Detector(value)
    THEN IF Exhausted(attempt)
         THEN IF rOpts.fallback THEN CallFallback(TRUE)
              ELSE Catch(ImageCooldownError(CooldownDetectedText, "response", value))
         ELSE Retry("response", value)
    ELSE Settle("return", value)

\* imageCooldown.ts:547-564 - the call: options are read, the loop starts.
RetryCall ==
    /\ rpc = "start"
    /\ LoopTest(1)
    /\ UNCHANGED <<rOpts, inTry, outcomes, waits, cooldownEvents, fallbackCalls,
                   fallbackOutcomes>>

\* imageCooldown.ts:564-612 - the awaited operation settles.
RequestSettles ==
    /\ rpc = "request"
    /\ \E o \in OpOutcomes :
         /\ outcomes' = Append(outcomes, o)
         /\ IF o.kind = "return" THEN OnValue(o.value) ELSE Catch(o.value)
    /\ UNCHANGED <<rOpts, attempt, calls, fallbackOutcomes>>

\* Faulty variant: the wait ends and the same attempt number is used again.
WaitDoneSameAttempt ==
    /\ rpc = "wait"
    /\ LoopTest(attempt)
    /\ UNCHANGED <<rOpts, inTry, outcomes, waits, cooldownEvents, fallbackCalls,
                   fallbackOutcomes>>

\* imageCooldown.ts:584-585, 611-613 - the wait ends, attempt += 1.
WaitDone ==
    /\ rpc = "wait"
    /\ LoopTest(attempt + 1)
    /\ UNCHANGED <<rOpts, inTry, outcomes, waits, cooldownEvents, fallbackCalls,
                   fallbackOutcomes>>

\* imageCooldown.ts:572, 598 - the awaited fallback settles; a fallback
\* awaited inside the try block that throws is caught by the catch block.
FallbackSettles ==
    /\ rpc = "fallback"
    /\ \E o \in FallbackOutcomes :
         /\ fallbackOutcomes' = Append(fallbackOutcomes, o)
         /\ IF o.kind = "return" THEN Settle("return", o.value)
            ELSE IF inTry THEN Catch(o.value)
                 ELSE Settle("throw", o.value)
    /\ UNCHANGED <<rOpts, attempt, calls, outcomes>>

RetryInit ==
    /\ QueueInit
    /\ WaitIdle
    /\ SendIdle
    /\ AuxIdle
    /\ rOpts \in RetryOptions
    /\ rpc = "start"
    /\ attempt = 0
    /\ inTry = FALSE
    /\ calls = <<>>
    /\ outcomes = <<>>
    /\ waits = <<>>
    /\ cooldownEvents = <<>>
    /\ fallbackCalls = 0
    /\ fallbackOutcomes = <<>>
    /\ result = [kind |-> "none"]

RetryNext ==
    \/ RetryCall /\ UNCHANGED <<queueVars, waitVars, sendVars, auxVars>>
    \/ RequestSettles /\ UNCHANGED <<queueVars, waitVars, sendVars, auxVars>>
    \/ WaitDone /\ UNCHANGED <<queueVars, waitVars, sendVars, auxVars>>
    \/ FallbackSettles /\ UNCHANGED <<queueVars, waitVars, sendVars, auxVars>>

RetrySpec == RetryInit /\ [][RetryNext]_vars

\* ================================= two concurrent withImageCooldownRetry ==

\* Two calls of withImageCooldownRetry in flight at once.  JavaScript runs one
\* of them at a time and changes over at an await only, that is between two
\* actions of the call; everything a call works with is a parameter or a
\* const / let local of its own activation (imageCooldown.ts:547-562), so the
\* call that is not running is kept whole in `other`.
Activation ==
    [rOpts |-> rOpts, rpc |-> rpc, attempt |-> attempt, inTry |-> inTry,
     calls |-> calls, outcomes |-> outcomes, waits |-> waits,
     cooldownEvents |-> cooldownEvents, fallbackCalls |-> fallbackCalls,
     fallbackOutcomes |-> fallbackOutcomes, result |-> result]

\* Faulty variant: the attempt counter is a variable of the module, shared by
\* all calls, instead of the loop's own `let attempt`.
ResumeOtherSharedAttempt ==
    /\ other' = Activation
    /\ rOpts' = other.rOpts
    /\ rpc' = other.rpc
    /\ attempt' = attempt
    /\ inTry' = other.inTry
    /\ calls' = other.calls
    /\ outcomes' = other.outcomes
    /\ waits' = other.waits
    /\ cooldownEvents' = other.cooldownEvents
    /\ fallbackCalls' = other.fallbackCalls
    /\ fallbackOutcomes' = other.fallbackOutcomes
    /\ result' = other.result

\* The running call is suspended at its await (or has settled) and the event
\* loop goes on with the other call.
ResumeOther ==
    /\ other' = Activation
    /\ rOpts' = other.rOpts
    /\ rpc' = other.rpc
    /\ attempt' = other.attempt
    /\ inTry' = other.inTry
    /\ calls' = other.calls
    /\ outcomes' = other.outcomes
    /\ waits' = other.waits
    /\ cooldownEvents' = other.cooldownEvents
    /\ fallbackCalls' = other.fallbackCalls
    /\ fallbackOutcomes' = other.fallbackOutcomes
    /\ result' = other.result

\* The options of the concurrent calls.
ConcOptions ==
    [maxAttempts : {1, 2}, baseDelayMs : {60}, jitterMsRange : {<<0, 0>>},
     detector : {"default"}, errorDetector : {"default", "always"},
     fallback : BOOLEAN, onCooldown : {TRUE}]

ConcInit ==
    /\ QueueInit
    /\ WaitIdle
    /\ SendIdle
    /\ deliveries = {}
    /\ qry = [fn |-> "off"]
    /\ rOpts \in ConcOptions
    /\ rpc = "start"
    /\ attempt = 0
    /\ inTry = FALSE
    /\ calls = <<>>
    /\ outcomes = <<>>
    /\ waits = <<>>
    /\ cooldownEvents = <<>>
    /\ fallbackCalls = 0
    /\ fallbackOutcomes = <<>>
    /\ result = [kind |-> "none"]
    /\ \E o \in ConcOptions :
         other = [rOpts |-> o, rpc |-> "start", attempt |-> 0, inTry |-> FALSE,
                  calls |-> <<>>, outcomes |-> <<>>, waits |-> <<>>,
                  cooldownEvents |-> <<>>, fallbackCalls |-> 0,
                  fallbackOutcomes |-> <<>>, result |-> [kind |-> "none"]]

ConcNext ==
    \/ RetryCall /\ UNCHANGED <<queueVars, waitVars, sendVars, auxVars>>
    \/ RequestSettles /\ UNCHANGED <<queueVars, waitVars, sendVars, auxVars>>
    \/ WaitDone /\ UNCHANGED <<queueVars, waitVars, sendVars, auxVars>>
    \/ FallbackSettles /\ UNCHANGED <<queueVars, waitVars, sendVars, auxVars>>
    \/ ResumeOther /\ UNCHANGED <<queueVars, waitVars, sendVars, deliveries, qry>>

ConcSpec == ConcInit /\ [][ConcNext]_vars

\* ================================== the queue with failing notifications ==

\* How the delivery of one PROMPT_PROGRESS message may go: a listener gets it;
\* nobody listens (the callback runs with chrome.runtime.lastError set);
\* chrome.runtime.sendMessage throws; chrome.runtime is undefined.
NotifyOutcomes == {"delivered", "noListener", "sendThrows", "noApi"}

ErrNotify == "Extension context invalidated."

\* Faulty variant: no try / catch around the sendMessage call.
notifyUncaught(d) == IF d \in {"sendThrows", "noApi"} THEN "throws" ELSE "returns"

\* contentScript.js:5-14 - notify(text) as its caller sees it: what is thrown
\* inside the try block is caught at line 11; lastError is read and dropped
\* in the callback.
notify(d) ==
    IF d \in {"sendThrows", "noApi"} THEN "returns"
    ELSE "returns"

\* The next step of run t calls notify (lines 341, 343, 345, 363).
Notifies(t) ==
    \/ run[t].pc \in {"afterSend", "afterWait"}
    \/ run[t].pc = "settled" /\ run[t].outcome # "ok"
    \/ /\ run[t].pc = "loopHead"
       /\ run[t].hasPrompts
       /\ run[t].index < Len(run[t].prompts)

\* A step of run t, given by step, with the delivery of its notification.
\* A notify that threw would end processPrompts at that line, and in the
\* catch callback (line 363) it would skip sendResponse.
Notified(t, step) ==
    IF Notifies(t)
    THEN \E d \in NotifyOutcomes :
           /\ deliveries' = deliveries \cup {d}
           /\ IF notify(d) = "returns"
              THEN step
              ELSE /\ Ready(t)
                   /\ IF run[t].pc = "settled"
                      THEN run' = [run EXCEPT ![t] = NoRun("done")]
                      ELSE Throw(t, ErrNotify)
                   /\ UNCHANGED <<isProcessing, received, replies>>
    ELSE step /\ UNCHANGED deliveries

\* One run on a page that is idle whenever isStreaming() is read.
IdlePage(t) == run'[t].pc # "waitPoll"

NotifyInit ==
    /\ QueueInit
    /\ RetryIdle
    /\ WaitIdle
    /\ SendIdle
    /\ AuxIdle

NotifyNext ==
    \/ \E p \in PromptLists :
         /\ received = 0
         /\ TriggerAccepted(p, TRUE)
         /\ UNCHANGED <<retryVars, waitVars, sendVars, auxVars>>
    \/ \E t \in TriggerIds :
         EnsureProbe(t) /\ IdlePage(t) /\ UNCHANGED <<retryVars, waitVars, sendVars, auxVars>>
    \/ \E t \in TriggerIds :
         EnsureSleepDone(t) /\ UNCHANGED <<retryVars, waitVars, sendVars, auxVars>>
    \/ \E t \in TriggerIds :
         WaitSettleDone(t) /\ IdlePage(t) /\ UNCHANGED <<retryVars, waitVars, sendVars, auxVars>>
    \/ \E t \in TriggerIds :
         Notified(t, LoopHead(t)) /\ UNCHANGED <<retryVars, waitVars, sendVars, other, qry>>
    \/ \E t \in TriggerIds :
         Inject(t) /\ UNCHANGED <<retryVars, waitVars, sendVars, auxVars>>
    \/ \E t \in TriggerIds :
         InjectSleepDone(t) /\ UNCHANGED <<retryVars, waitVars, sendVars, auxVars>>
    \/ \E t \in TriggerIds :
         BtnLoop(t) /\ UNCHANGED <<retryVars, waitVars, sendVars, auxVars>>
    \/ \E t \in TriggerIds :
         BtnSleepDone(t) /\ UNCHANGED <<retryVars, waitVars, sendVars, auxVars>>
    \/ \E t \in TriggerIds :
         EnterSleepDone(t) /\ UNCHANGED <<retryVars, waitVars, sendVars, auxVars>>
    \/ \E t \in TriggerIds :
         /\ Notified(t, AfterSend(t))
         /\ IdlePage(t)
         /\ UNCHANGED <<retryVars, waitVars, sendVars, other, qry>>
    \/ \E t \in TriggerIds :
         Notified(t, AfterWait(t)) /\ UNCHANGED <<retryVars, waitVars, sendVars, other, qry>>
    \/ \E t \in TriggerIds :
         ItemSleepDone(t) /\ UNCHANGED <<retryVars, waitVars, sendVars, auxVars>>
    \/ \E t \in TriggerIds :
         Finally(t) /\ UNCHANGED <<retryVars, waitVars, sendVars, auxVars>>
    \/ \E t \in TriggerIds :
         Notified(t, Reply(t)) /\ UNCHANGED <<retryVars, waitVars, sendVars, other, qry>>

NotifySpec == NotifyInit /\ [][NotifyNext]_vars

\* ============================================ waitForCompletion alone ==

\* One call waitForCompletion() with what it can be observed to do: w.elapsed
\* is the time since the call's start (Date.now() - start) at the end of the
\* last step, w.reads the last two isStreaming() reads with their times.
LastTwo(q) == IF Len(q) <= 2 THEN q ELSE SubSeq(q, Len(q) - 1, Len(q))

Seen(r, busy) == [r EXCEPT !.reads = LastTwo(Append(@, [busy |-> busy, at |-> r.elapsed]))]

\* contentScript.js:322-323 - the loop head at time r.elapsed: the throw of
\* line 331 leaves the time of the throw to be seen, a passed deadline test is
\* followed by the isStreaming() read.
WfcHead(r, busy) ==
    IF WaitHead(r, busy).pc = "finally"
    THEN [WaitHead(r, busy) EXCEPT !.elapsed = r.elapsed]
    ELSE Seen(WaitHead(r, busy), busy)

\* contentScript.js:320-323 - the call: start = Date.now(), first loop head.
WfcCall ==
    /\ w.pc = "call"
    /\ \E busy \in BOOLEAN : w' = WfcHead(w, busy)

\* contentScript.js:324-329 - sleep(500) resolves, second isStreaming() read:
\* idle returns, busy goes on to sleep(1000).
WfcSettleDone ==
    /\ w.pc = "waitSettle"
    /\ \E late \in LateMs, busy \in BOOLEAN :
         w' = Seen([w EXCEPT !.elapsed = @ + SettleMs + late,
                            !.pc = IF busy THEN "waitPoll" ELSE "returned",
                            !.outcome = IF busy THEN @ ELSE "ok"],
                   busy)

\* contentScript.js:329, 322-323 - sleep(1000) resolves, next loop head.
WfcPollDone ==
    /\ w.pc = "waitPoll"
    /\ \E late \in LateMs, busy \in BOOLEAN :
         w' = WfcHead([w EXCEPT !.elapsed = @ + PollMs + late], busy)

WaitInit ==
    /\ QueueInit
    /\ RetryIdle
    /\ SendIdle
    /\ AuxIdle
    /\ w = [pc |-> "call", outcome |-> "none", attempt |-> 0, elapsed |-> 0,
            phase |-> "primary", reads |-> <<>>]

WaitNext ==
    \/ WfcCall /\ UNCHANGED <<queueVars, retryVars, sendVars, auxVars>>
    \/ WfcSettleDone /\ UNCHANGED <<queueVars, retryVars, sendVars, auxVars>>
    \/ WfcPollDone /\ UNCHANGED <<queueVars, retryVars, sendVars, auxVars>>

WaitSpec == WaitInit /\ [][WaitNext]_vars

\* A pending sleep() timer fires in the end.
WaitFairSpec == WaitInit /\ [][WaitNext]_vars /\ WF_vars(WaitNext)

WfcOver == w.pc \in {"returned", "finally"}

\* C13: when waitForCompletion has returned, its last two isStreaming() reads
\* were both idle and at least the settle delay apart; a busy second read
\* after the settle delay leads to the 1000 ms sleep, not to a return.
C13_TwoAgreeingIdleReads ==
    /\ [](w.pc = "returned" =>
            /\ Len(w.reads) = 2
            /\ ~w.reads[1].busy
            /\ ~w.reads[2].busy
            /\ w.reads[2].at - w.reads[1].at >= SettleMs)
    /\ [][(w.pc = "waitSettle" /\ w'.reads[Len(w'.reads)].busy) =>
              w'.pc = "waitPoll"]_vars

\* C13 witness: an idle read was followed by a busy second read, polling went
\* on, and later two idle reads ended the wait.
C13_Witness ==
    /\ w.pc = "returned"
    /\ w.elapsed >= SettleMs + PollMs + SettleMs
    /\ Len(w.reads) = 2
    /\ ~w.reads[2].busy

\* C14: waitForCompletion ends, by a return or by a throw; it throws only the
\* timeout error (different from the composer and the send-button error),
\* only once the timeout has elapsed, and the first loop head reached after
\* the timeout throws; nothing happens after the end.
C14_AlwaysTerminates ==
    /\ <>WfcOver
    /\ [](w.pc = "finally" =>
            /\ w.outcome = ErrTimeout
            /\ w.outcome \notin {ErrComposer, ErrSendButton}
            /\ w.elapsed >= CompletionTimeoutMs)
    /\ [][/\ ~WfcOver
          /\ (w.pc = "waitPoll" /\ w'.elapsed >= CompletionTimeoutMs) =>
                w'.pc = "finally"]_vars

\* C14 witness: the interface was busy to the end and the wait threw the
\* timeout error.
C14_Witness ==
    /\ w.pc = "finally"
    /\ w.outcome = ErrTimeout
    /\ Len(w.reads) = 2
    /\ w.reads[1].busy
    /\ w.reads[2].busy

\* C15: waitForCompletion does not return once more than the timeout has
\* elapsed since its start.
C15_HardDeadline == w.pc = "returned" => w.elapsed <= CompletionTimeoutMs

\* ==================================================== sendPrompt alone ==

\* One call sendPrompt(prompt) with what it does to the page.  The content of
\* the composer is kept as the sequence of the texts it is made of; s.trace
\* lists the steps of the call that the page can observe.
OldText == "old"

ComposerTags == {"TEXTAREA", "INPUT", "DIV"}

\* What dispatching the synthetic paste event on the composer does: the
\* ClipboardEvent / DataTransfer constructor throws; no listener reacts; a
\* listener inserts the clipboard text, with or without preventDefault();
\* a listener only calls preventDefault().
PasteReactions == {"throws", "ignored", "inserted", "insertedPrevented", "prevented"}

\* The pages sendPrompt may run on.  For a TEXTAREA or INPUT composer only the
\* tag matters; a contenteditable composer (DIV) comes with its old content,
\* with document.execCommand being a function or not, with 'delete' and
\* 'insertText' taking effect or not, and with its reaction to a paste event.
Doms ==
    {[tag |-> tg, old |-> <<>>, execCommand |-> TRUE, deleteOk |-> TRUE,
      paste |-> "ignored", insertOk |-> TRUE] : tg \in {"TEXTAREA", "INPUT"}}
    \cup [tag : {"DIV"}, old : {<<>>, <<OldText>>}, execCommand : BOOLEAN,
          deleteOk : BOOLEAN, paste : PasteReactions, insertOk : BOOLEAN]

\* contentScript.js:219-232 - clearComposer(): execCommand selectAll + delete
\* when execCommand is a function, innerHTML = '' otherwise.
clearComposer(dom) ==
    IF dom.execCommand THEN (IF dom.deleteOk THEN <<>> ELSE dom.old) ELSE <<>>

\* contentScript.js:236-253 - attemptPaste() on a composer holding text: the
\* resulting text and the value returned (text.trim().length, or false when
\* the constructor threw or dispatchEvent returned false).
attemptPaste(dom, text, prompt) ==
    LET after == IF dom.paste \in {"inserted", "insertedPrevented"}
                 THEN Append(text, prompt) ELSE text
    IN  [text |-> after,
         ok |-> dom.paste \in {"ignored", "inserted"} /\ after # <<>>]

\* contentScript.js:255-262 - attemptExecCommand()
attemptExecCommand(dom, text, prompt) ==
    LET after == IF dom.execCommand /\ dom.insertOk THEN Append(text, prompt) ELSE text
    IN  [text |-> after, ok |-> dom.execCommand /\ after # <<>>]

\* contentScript.js:183-281 - setComposerValue(composer, prompt): the content
\* of the composer afterwards.
setComposerValue(dom, prompt) ==
    IF dom.tag \in {"TEXTAREA", "INPUT"}
    THEN <<prompt>>
    ELSE LET pasted == attemptPaste(dom, clearComposer(dom), prompt)
             typed == attemptExecCommand(dom, pasted.text, prompt)
         IN  IF pasted.ok THEN pasted.text
             ELSE IF typed.ok THEN typed.text
             ELSE <<prompt>>

\* contentScript.js:257-262 - attemptDirectWrite(): textContent = prompt.
attemptDirectWrite(dom, text, prompt) == [text |-> <<prompt>>, ok |-> TRUE]

\* contentScript.js:234, 264-268 - the insertion paths setComposerValue runs
\* on a contenteditable composer after clearComposer(), in the order run,
\* each with the text of the composer before and after it.
insertionPaths(dom, prompt) ==
    IF dom.tag \in {"TEXTAREA", "INPUT"}
    THEN <<>>
    ELSE LET cleared == clearComposer(dom)
             pasted == attemptPaste(dom, cleared, prompt)
             typed == attemptExecCommand(dom, pasted.text, prompt)
             written == attemptDirectWrite(dom, typed.text, prompt)
         IN  <<[path |-> "paste", before |-> cleared, after |-> pasted.text]>>
             \o (IF pasted.ok THEN <<>>
                 ELSE <<[path |-> "execCommand", before |-> pasted.text,
                         after |-> typed.text]>>
                      \o (IF typed.ok THEN <<>>
                          ELSE <<[path |-> "directWrite", before |-> typed.text,
                                  after |-> written.text]>>))

\* contentScript.js:155-169 - dispatchEnter(composer): the events dispatched.
dispatchEnter == <<"keydown", "keypress", "keyup">>

\* contentScript.js:173-180, 284 - ensureComposer's loop test and lookup.
SendEnsureProbe ==
    /\ s.pc = "ensureProbe"
    /\ IF s.attempt < EnsureMaxAttempts
       THEN \E found \in BOOLEAN :
              IF found
              THEN s' = [s EXCEPT !.pc = "inject", !.attempt = 0,
                                  !.trace = Append(@, "composer")]
              ELSE s' = [s EXCEPT !.pc = "ensureSleep"]
       ELSE s' = Thrown(s, ErrComposer)

\* contentScript.js:178 - sleep(500) resolves, attempt++.
SendEnsureSleepDone ==
    /\ s.pc = "ensureSleep"
    /\ s' = [s EXCEPT !.pc = "ensureProbe", !.attempt = @ + 1]

\* contentScript.js:285-287 - composer.focus(), setComposerValue, sleep(150).
SendInject ==
    /\ s.pc = "inject"
    /\ s' = [s EXCEPT !.pc = "injectSleep", !.focused = TRUE,
                      !.text = setComposerValue(s.dom, s.prompt),
                      !.paths = insertionPaths(s.dom, s.prompt),
                      !.trace = @ \o <<"focus", "inject">>]

\* contentScript.js:287-288 - sleep(150) resolves, waitForSendButton starts.
SendInjectSleepDone ==
    /\ s.pc = "injectSleep"
    /\ s' = [s EXCEPT !.pc = "btnLoop", !.elapsed = 0, !.phase = "primary",
                      !.trace = Append(@, "locate-primary")]

\* Faulty variant: the keyboard sequence is dispatched as soon as one lookup
\* of the primary wait finds no button.
SendBtnLoopEnterEarly ==
    /\ s.pc = "btnLoop"
    /\ IF s.elapsed < SendButtonTimeoutMs
       THEN \E found \in BOOLEAN :
              IF found
              THEN s' = [s EXCEPT !.pc = "returned", !.outcome = "ok",
                                  !.trace = @ \o <<"found", "click">>]
              ELSE IF s.phase = "primary"
              THEN s' = [s EXCEPT !.pc = "enterSleep",
                                  !.trace = @ \o <<"timeout">> \o dispatchEnter]
              ELSE s' = [s EXCEPT !.pc = "btnSleep"]
       ELSE IF s.phase = "primary"
            THEN s' = [s EXCEPT !.pc = "enterSleep",
                                !.trace = @ \o <<"timeout">> \o dispatchEnter]
            ELSE s' = [Thrown(s, ErrSendButton) EXCEPT !.trace = Append(@, "timeout")]

\* contentScript.js:145-152, 289-300 - waitForSendButton's deadline test and
\* getSendButton() lookup, and what sendPrompt does with the result: click
\* and return; after the primary wait dispatchEnter and sleep(300); after the
\* retry wait the throw.
SendBtnLoop ==
    /\ s.pc = "btnLoop"
    /\ IF s.elapsed < SendButtonTimeoutMs
       THEN \E found \in BOOLEAN :
              IF found
              THEN s' = [s EXCEPT !.pc = "returned", !.outcome = "ok",
                                  !.trace = @ \o <<"found", "click">>]
              ELSE s' = [s EXCEPT !.pc = "btnSleep"]
       ELSE IF s.phase = "primary"
            THEN s' = [s EXCEPT !.pc = "enterSleep",
                                !.trace = @ \o <<"timeout">> \o dispatchEnter]
            ELSE s' = [Thrown(s, ErrSendButton) EXCEPT !.trace = Append(@, "timeout")]

\* contentScript.js:150 - sleep(100) resolves.
SendBtnSleepDone ==
    /\ s.pc = "btnSleep"
    /\ \E late \in LateMs :
         s' = [s EXCEPT !.pc = "btnLoop", !.elapsed = @ + SendButtonPollMs + late]

\* contentScript.js:294-295 - sleep(300) resolves, the retry wait starts.
SendEnterSleepDone ==
    /\ s.pc = "enterSleep"
    /\ s' = [s EXCEPT !.pc = "btnLoop", !.elapsed = 0, !.phase = "retry",
                      !.trace = Append(@, "locate-retry")]

SendInit ==
    /\ QueueInit
    /\ RetryIdle
    /\ WaitIdle
    /\ AuxIdle
    /\ \E d \in Doms, p \in {Prompts[1], Prompts[2]} :
         s = [pc |-> "ensureProbe", outcome |-> "none", attempt |-> 0, elapsed |-> 0,
              phase |-> "primary", prompt |-> p, dom |-> d, text |-> d.old,
              focused |-> FALSE, trace |-> <<>>, paths |-> <<>>]

SendNext ==
    \/ SendEnsureProbe /\ UNCHANGED <<queueVars, retryVars, waitVars, auxVars>>
    \/ SendEnsureSleepDone /\ UNCHANGED <<queueVars, retryVars, waitVars, auxVars>>
    \/ SendInject /\ UNCHANGED <<queueVars, retryVars, waitVars, auxVars>>
    \/ SendInjectSleepDone /\ UNCHANGED <<queueVars, retryVars, waitVars, auxVars>>
    \/ SendBtnLoop /\ UNCHANGED <<queueVars, retryVars, waitVars, auxVars>>
    \/ SendBtnSleepDone /\ UNCHANGED <<queueVars, retryVars, waitVars, auxVars>>
    \/ SendEnterSleepDone /\ UNCHANGED <<queueVars, retryVars, waitVars, auxVars>>

SendSpec == SendInit /\ [][SendNext]_vars

\* The complete traces of a sendPrompt call.
ClickPrimaryTrace == <<"composer", "focus", "inject", "locate-primary", "found", "click">>
KeysTrace ==
    <<"composer", "focus", "inject", "locate-primary", "timeout">> \o dispatchEnter
    \o <<"locate-retry">>
ClickRetryTrace == KeysTrace \o <<"found", "click">>
FailTrace == KeysTrace \o <<"timeout">>

\* C16: the steps of a sendPrompt call are, in this order, composer found,
\* focus, inject, primary lookup, then the click, or - the primary lookup
\* having timed out - keydown, keypress, keyup, the retry lookup and then the
\* click or the send-button error; a lookup is given up only when its 2000 ms
\* have elapsed; a call that returned has clicked once, a call that threw has
\* not clicked.
C16_SendStateMachine ==
    /\ [](/\ \/ IsPrefix(s.trace, ClickPrimaryTrace)
              \/ IsPrefix(s.trace, ClickRetryTrace)
              \/ IsPrefix(s.trace, FailTrace)
          /\ s.pc = "returned" => s.trace \in {ClickPrimaryTrace, ClickRetryTrace}
          /\ s.outcome = ErrSendButton => s.trace = FailTrace
          /\ s.outcome = ErrComposer => s.trace = <<>>
          /\ s.pc = "finally" => s.outcome \in {ErrSendButton, ErrComposer})
    /\ [][(Len(s'.trace) > Len(s.trace) /\ s'.trace[Len(s.trace) + 1] = "timeout") =>
             s.elapsed >= SendButtonTimeoutMs]_vars

\* C16 witness: the primary lookup timed out, the keyboard sequence was
\* dispatched and the retry lookup found the button, which was clicked.
C16_Witness ==
    /\ s.pc = "returned"
    /\ s.trace = ClickRetryTrace

\* C17: whenever sendPrompt has clicked the send button or dispatched the
\* keyboard sequence, a composer was located and focused and its content is
\* the prompt.
C17_SubmitOnlyInjected ==
    (\E i \in 1..Len(s.trace) : s.trace[i] \in {"click", "keydown"}) =>
        /\ s.trace[1] = "composer"
        /\ s.focused
        /\ s.text = <<s.prompt>>

\* C29: once setComposerValue(composer, prompt) has returned, the content
\* of the composer is the prompt, whatever the kind of composer and whatever
\* the page did with the synthetic events.
C29_ContentEqualsPrompt ==
    (\E i \in 1..Len(s.trace) : s.trace[i] = "inject") => s.text = <<s.prompt>>

\* The order in which the insertion paths are to be tried.
PathOrder == <<"paste", "execCommand", "directWrite">>

\* C36: on a contenteditable composer setComposerValue tries the insertion
\* paths in the order paste, execCommand, direct write; a later path is
\* attempted only when the composer text is still empty, and at most one of
\* the paths attempted changes the text of the composer.
C36_OnePathContributes ==
    ((\E i \in 1..Len(s.trace) : s.trace[i] = "inject") /\ s.dom.tag = "DIV") =>
        /\ Len(s.paths) \in 1..3
        /\ \A i \in 1..Len(s.paths) : s.paths[i].path = PathOrder[i]
        /\ \A i \in 2..Len(s.paths) : s.paths[i].before = <<>>
        /\ Cardinality({i \in 1..Len(s.paths) :
                            s.paths[i].after # s.paths[i].before}) <= 1

\* ================================================ ensureComposer alone ==

\* One call of ensureComposer. qry.calls keeps, for every getComposer() call,
\* the time at which it was made and whether it returned an element.

\* Faulty variant: the loop test is attempt <= maxAttempts.
EnsProbeOffByOne ==
    /\ qry.pc = "probe"
    /\ IF qry.attempt <= EnsureMaxAttempts
       THEN \E found \in BOOLEAN :
              qry' = [qry EXCEPT !.calls = Append(@, [at |-> qry.now, found |-> found]),
                                 !.pc = IF found THEN "returned" ELSE "sleep",
                                 !.result = IF found THEN "composer" ELSE @]
       ELSE qry' = [qry EXCEPT !.pc = "thrown", !.result = ErrComposer]

\* contentScript.js:173-177, 180 - the loop test, the lookup, the return of
\* the element found, and the throw after the loop.
EnsProbe ==
    /\ qry.pc = "probe"
    /\ IF qry.attempt < EnsureMaxAttempts
       THEN \E found \in BOOLEAN :
              qry' = [qry EXCEPT !.calls = Append(@, [at |-> qry.now, found |-> found]),
                                 !.pc = IF found THEN "returned" ELSE "sleep",
                                 !.result = IF found THEN "composer" ELSE @]
       ELSE qry' = [qry EXCEPT !.pc = "thrown", !.result = ErrComposer]

\* contentScript.js:178, 173 - sleep(500) resolves, attempt++.
EnsSleepDone ==
    /\ qry.pc = "sleep"
    /\ \E late \in LateMs :
         qry' = [qry EXCEPT !.pc = "probe", !.attempt = @ + 1,
                            !.now = @ + EnsureSleepMs + late]

EnsureInit ==
    /\ QueueInit
    /\ RetryIdle
    /\ WaitIdle
    /\ SendIdle
    /\ other = [rpc |-> "off"]
    /\ deliveries = {}
    /\ qry = [fn |-> "ensureComposer", pc |-> "probe", attempt |-> 0, now |-> 0,
              calls |-> <<>>, result |-> "pending"]

EnsureNext ==
    \/ EnsProbe /\ UNCHANGED <<queueVars, retryVars, waitVars, sendVars, other, deliveries>>
    \/ EnsSleepDone /\ UNCHANGED <<queueVars, retryVars, waitVars, sendVars, other, deliveries>>

EnsureSpec == EnsureInit /\ [][EnsureNext]_vars

\* C26: ensureComposer calls getComposer at most ten times, consecutive
\* calls are separated by one sleep of 500 ms, the first element found is
\* returned at once, and the composer error is thrown only after ten calls
\* that all returned null.
C26_EnsureBounded ==
    qry.fn = "ensureComposer" =>
        /\ Len(qry.calls) <= 10
        /\ \A i \in 1..(Len(qry.calls) - 1) :
              /\ ~qry.calls[i].found
              /\ qry.calls[i + 1].at - qry.calls[i].at >= 500
        /\ (qry.pc = "returned") = (Len(qry.calls) > 0 /\ qry.calls[Len(qry.calls)].found)
        /\ (qry.pc = "returned") = (qry.result = "composer")
        /\ (qry.pc = "thrown") = (qry.result = ErrComposer)
        /\ qry.pc = "thrown" =>
              /\ Len(qry.calls) = 10
              /\ \A i \in 1..10 : ~qry.calls[i].found

\* C26 witness: the composer is found by the tenth lookup.
C26_Witness ==
    /\ qry.fn = "ensureComposer"
    /\ qry.pc = "returned"
    /\ Len(qry.calls) = 10
    /\ qry.calls[10].at >= 9 * 500

\* ======================================== extractAssistantContent alone ==

MaxChoices == 2

\* The texts of the payloads: every property has a text of its own, those of
\* the choices one per position in the array.
ExtractTexts ==
    [content |-> <<"content 1", "content 2", "content 3", "content 4">>,
     messageText |-> <<"message text 1", "message text 2", "message text 3",
                       "message text 4">>,
     choiceText |-> <<"text 1", "text 2", "text 3", "text 4">>,
     message |-> "top message",
     errorMessage |-> "error message",
     error |-> "error string"]

\* The i-th entry of a choices array: not an object, or an object with a
\* message (absent, or holding content and text or neither) and a text.
ChoiceAt(i) ==
    {[type |-> "null"]}
    \cup [type : {"object"},
          message : {NoMessage}
                    \cup [truthy : {TRUE},
                          content : {Undefined, "", ExtractTexts.content[i]},
                          text : {Undefined, ExtractTexts.messageText[i]}],
          text : {Undefined, ExtractTexts.choiceText[i]}]

RECURSIVE ChoiceLists(_)
ChoiceLists(n) ==
    IF n = 0 THEN {<<>>}
    ELSE {Append(l, c) : l \in ChoiceLists(n - 1), c \in ChoiceAt(n)}

ExtractErrors ==
    {NoError, [type |-> "string", text |-> ExtractTexts.error]}
    \cup {[type |-> "object", message |-> m] : m \in {Undefined, ExtractTexts.errorMessage}}

ExtractPayloads ==
    {[type |-> "string", text |-> t] : t \in {"", "Y"}}
    \cup {[type |-> "other"]}
    \cup [type : {"object"}, choicesIsArray : {FALSE}, choices : {<<>>},
          message : {Undefined, "", ExtractTexts.message}, error : ExtractErrors]
    \cup [type : {"object"}, choicesIsArray : {TRUE},
          choices : UNION {ChoiceLists(n) : n \in 0..MaxChoices},
          message : {Undefined, "", ExtractTexts.message}, error : ExtractErrors]

\* One call extractAssistantContent(payload).
ExtractCall ==
    /\ qry.pc = "call"
    /\ qry' = [qry EXCEPT !.pc = "done",
                          !.result = extractAssistantContent(qry.payload)]

ExtractInit ==
    /\ QueueInit
    /\ RetryIdle
    /\ WaitIdle
    /\ SendIdle
    /\ other = [rpc |-> "off"]
    /\ deliveries = {}
    /\ qry \in [fn : {"extractAssistantContent"}, pc : {"call"},
                 payload : ExtractPayloads, result : {Undefined}]

ExtractNext ==
    ExtractCall /\ UNCHANGED <<queueVars, retryVars, waitVars, sendVars, other, deliveries>>

ExtractSpec == ExtractInit /\ [][ExtractNext]_vars

\* The places of an object payload in which a text is looked for, in the
\* order of their priority: message.content, message.text and text of every
\* choice in array order, then message, error.message and error.  A place
\* holds Undefined when it is absent or holds no string.
ExtractPlaces(payload) ==
    LET n == IF payload.choicesIsArray THEN Len(payload.choices) ELSE 0
    IN  [k \in 1..(3 * n + 3) |->
            IF k <= 3 * n
            THEN LET choice == payload.choices[((k - 1) \div 3) + 1]
                     field == (k - 1) % 3
                 IN  IF choice.type # "object" THEN Undefined
                     ELSE IF field = 0
                          THEN (IF choice.message.truthy THEN choice.message.content
                                ELSE Undefined)
                     ELSE IF field = 1
                          THEN (IF choice.message.truthy THEN choice.message.text
                                ELSE Undefined)
                     ELSE choice.text
            ELSE IF k = 3 * n + 1 THEN payload.message
            ELSE IF k = 3 * n + 2
                 THEN (IF payload.error.type = "object" THEN payload.error.message
                       ELSE Undefined)
            ELSE (IF payload.error.type = "string" THEN payload.error.text
                  ELSE Undefined)]

\* C30: extractAssistantContent returns a string payload itself; for an
\* object payload the string of the first place, in priority order, that
\* holds one (message.content, message.text, text of the choices in array
\* order, then message, error.message, error); undefined when no place
\* holds a string and for every other payload.
C30_FirstTextByPriority ==
    (qry.fn = "extractAssistantContent" /\ qry.pc = "done") =>
        LET payload == qry.payload
        IN  CASE payload.type = "string" -> qry.result = payload.text
              [] payload.type = "object" ->
                    LET places == ExtractPlaces(payload)
                        held == {k \in DOMAIN places : places[k] # Undefined}
                    IN  IF held = {} THEN qry.result = Undefined
                        ELSE \E k \in held :
                               /\ \A j \in held : k <= j
                               /\ qry.result = places[k]
              [] OTHER -> qry.result = Undefined

\* C30 witness: the first choice holds no string, the second holds only a
\* message.text and a text, the payload also has a top-level message and a
\* string error; message.text of the second choice is returned.
C30_Witness ==
    /\ qry.fn = "extractAssistantContent"
    /\ qry.pc = "done"
    /\ qry.payload.type = "object"
    /\ qry.payload.choicesIsArray
    /\ Len(qry.payload.choices) = 2
    /\ qry.payload.choices[1] = [type |-> "object", message |-> NoMessage, text |-> Undefined]
    /\ qry.payload.choices[2] =
          [type |-> "object",
           message |-> [truthy |-> TRUE, content |-> Undefined, text |-> ExtractTexts.messageText[2]],
           text |-> ExtractTexts.choiceText[2]]
    /\ qry.payload.message = ExtractTexts.message
    /\ qry.payload.error.type = "string"
    /\ qry.result = ExtractTexts.messageText[2]

\* ================================================= the detectors alone ==

\* The payloads found in error.response.data.
DetectPayloads ==
    {[type |-> "other"], [type |-> "string", text |-> LimitText],
     Response(LimitText), Response(OtherErrorText), Response(Undefined)}
    \cup [type : {"object"}, choicesIsArray : {FALSE}, choices : {<<>>},
          message : {Undefined, LimitText, OtherErrorText},
          error : {NoError, [type |-> "string", text |-> LimitText],
                   [type |-> "object", message |-> LimitText]}]

\* The errors isImageCooldownError is called with.
DetectErrors ==
    {[type |-> "other"]}
    \cup {[type |-> "string", text |-> t] :
            t \in {"", LimitText, OtherErrorText, DetectTexts.period}}
    \cup {ErrorValue(t) : t \in {LimitText, OtherErrorText}}
    \cup [type : {"object"},
          text : {Undefined, "", LimitText, OtherErrorText, DetectTexts.period},
          response : {[truthy |-> FALSE, data |-> [type |-> "other"]]}
                     \cup [truthy : {TRUE}, data : DetectPayloads]]

\* The calls isImageCooldownMessage(text) and isImageCooldownMessage(text,
\* patterns): patterns omitted, the custom list, an empty list, the custom
\* list followed by the defaults.
DetectMessages ==
    [text : {Undefined, "", LimitText, OtherErrorText, DetectTexts.sentence,
             DetectTexts.allGood, DetectTexts.custom, DetectTexts.period},
     patterns : {<<"omitted">>, CustomPatterns, <<>>,
                 CustomPatterns \o DEFAULT_COOLDOWN_PATTERNS}]

ErrorCall ==
    /\ qry.fn = "isImageCooldownError"
    /\ qry.pc = "call"
    /\ qry' = [qry EXCEPT !.pc = "done", !.result = isImageCooldownError(qry.input)]

MessageCall ==
    /\ qry.fn = "isImageCooldownMessage"
    /\ qry.pc = "call"
    /\ qry' = [qry EXCEPT !.pc = "done",
                          !.result = isImageCooldownMessage(
                              qry.input.text,
                              IF qry.input.patterns = <<"omitted">>
                              THEN DEFAULT_COOLDOWN_PATTERNS
                              ELSE qry.input.patterns)]

DetectInit ==
    /\ QueueInit
    /\ RetryIdle
    /\ WaitIdle
    /\ SendIdle
    /\ other = [rpc |-> "off"]
    /\ deliveries = {}
    /\ qry \in [fn : {"isImageCooldownError"}, pc : {"call"},
                 input : DetectErrors, result : {FALSE}]
               \cup [fn : {"isImageCooldownMessage"}, pc : {"call"},
                     input : DetectMessages, result : {FALSE}]

DetectNext ==
    \/ ErrorCall /\ UNCHANGED <<queueVars, retryVars, waitVars, sendVars, other, deliveries>>
    \/ MessageCall /\ UNCHANGED <<queueVars, retryVars, waitVars, sendVars, other, deliveries>>

DetectSpec == DetectInit /\ [][DetectNext]_vars

\* The texts on which one of the default patterns matches.
DefaultMatches == {LimitText, DetectTexts.sentence, DetectTexts.period}

\* C31: isImageCooldownError(error) returns true exactly when the error is
\* a string that matches a cooldown pattern, or an object whose message
\* matches one, or an object with a nested response payload that
\* isImageCooldownResponse classifies as a cooldown; false for every other
\* error, null / undefined among them.
C31_CooldownErrorExactly ==
    (qry.fn = "isImageCooldownError" /\ qry.pc = "done") =>
        LET error == qry.input
        IN  qry.result =
              (\/ error.type = "string" /\ error.text \in DefaultMatches
               \/ error.type \in {"object", "Error"} /\ error.text \in DefaultMatches
               \/ /\ error.type = "object"
                  /\ error.response.truthy
                  /\ isImageCooldownResponse(error.response.data))

\* C31 witness: an error object with an unrelated message whose nested
\* response holds the limit phrase as top-level string error is a cooldown.
C31_Witness ==
    /\ qry.fn = "isImageCooldownError"
    /\ qry.pc = "done"
    /\ qry.input.type = "object"
    /\ qry.input.text = OtherErrorText
    /\ qry.input.response.truthy
    /\ qry.input.response.data.type = "object"
    /\ qry.input.response.data.message = Undefined
    /\ qry.input.response.data.error = [type |-> "string", text |-> LimitText]
    /\ qry.result = TRUE

\* C32: isImageCooldownMessage(text, patterns) returns true exactly when
\* the text is not empty, null or undefined and a pattern of the list in
\* force matches it - the defaults when no list is given, else the list
\* given and nothing but it.
C32_MessageMatchesListInForce ==
    (qry.fn = "isImageCooldownMessage" /\ qry.pc = "done") =>
        LET text == qry.input.text
            given == qry.input.patterns
        IN  /\ text \in {Undefined, ""} => qry.result = FALSE
            /\ given = <<"omitted">> => qry.result = (text \in DefaultMatches)
            /\ given = CustomPatterns => qry.result = (text = DetectTexts.custom)
            /\ given = <<>> => qry.result = FALSE
            /\ given = CustomPatterns \o DEFAULT_COOLDOWN_PATTERNS =>
                  qry.result = (text \in DefaultMatches \cup {DetectTexts.custom})

\* C32 witness: the limit sentence is no cooldown under the custom patterns.
C32_Witness ==
    /\ qry.fn = "isImageCooldownMessage"
    /\ qry.pc = "done"
    /\ qry.input.text = DetectTexts.sentence
    /\ qry.input.patterns = CustomPatterns
    /\ qry.result = FALSE

\* ======================================= the element locators on a page ==

MaxMatches == 2
MaxButtons == 2

\* getComposer's selectors by their rank (1..30) in the list of lines 17-48.
\* Those whose match is a textarea, and those whose match carries
\* contenteditable="true"; the others match a div with role="textbox".
TextareaSelectors == {1, 2, 3, 4, 6, 8, 13, 14, 17, 18, 19, 20, 21, 22, 30}
EditableSelectors == {5, 7, 9, 15, 16, 23, 24, 25, 29}

\* What document.querySelector(selector) returns, by the four tests that
\* getComposer makes on it (lines 52, 55, 59, 62).
NoMatch ==
    [matched |-> FALSE, editable |-> FALSE, nestedEditable |-> FALSE,
     textareaOrInput |-> FALSE, nestedTextarea |-> FALSE]

MatchKinds(k) ==
    IF k \in TextareaSelectors
    THEN {[NoMatch EXCEPT !.matched = TRUE, !.textareaOrInput = TRUE]}
    ELSE IF k \in EditableSelectors
    THEN {[NoMatch EXCEPT !.matched = TRUE, !.editable = TRUE]}
    ELSE [matched : {TRUE}, editable : BOOLEAN, nestedEditable : BOOLEAN,
          textareaOrInput : {FALSE}, nestedTextarea : BOOLEAN]

\* The match of a textarea, and of an element with contenteditable="true".
TextareaMatch == [NoMatch EXCEPT !.matched = TRUE, !.textareaOrInput = TRUE]
EditableMatch == [NoMatch EXCEPT !.matched = TRUE, !.editable = TRUE]

\* A page on which selector k matches has a match for the selectors that k
\* implies.  The div of selector 10 is matched by 27 (data-testid*="prompt"),
\* a textarea inside it by 4, a contenteditable inside it by 5; a textbox div
\* of 10 / 27, 26, 28 that is itself contenteditable is matched by 24, 23,
\* 25; every contenteditable div is matched by 'div[contenteditable="true"]'
\* (29); the textareas with the exact prompt test ids are matched by 21,
\* and every textarea, nested ones included, by 'textarea' (30).
ClosePage(page) ==
    LET has(K) == \E k \in K : page[k].matched
        editableDivs == {j \in {10, 11, 12, 26, 27, 28} : page[j].editable}
    IN  [k \in 1..30 |->
            IF page[k].matched THEN page[k]
            ELSE IF k = 4 /\ page[10].nestedTextarea THEN TextareaMatch
            ELSE IF k = 5 /\ page[10].nestedEditable THEN EditableMatch
            ELSE IF k = 21 /\ has({1, 2}) THEN TextareaMatch
            ELSE IF k = 23 /\ page[26].editable THEN page[26]
            ELSE IF k = 24 /\ page[10].editable THEN page[10]
            ELSE IF k = 24 /\ page[27].editable THEN page[27]
            ELSE IF k = 25 /\ page[28].editable THEN page[28]
            ELSE IF k = 27 /\ page[10].matched THEN page[10]
            ELSE IF k = 29 /\ editableDivs # {}
                 THEN page[CHOOSE j \in editableDivs : \A i \in editableDivs : j <= i]
            ELSE IF k = 29 /\ has({15, 16, 23, 24, 25}) THEN EditableMatch
            ELSE IF k = 30 /\ (has(TextareaSelectors)
                               \/ \E j \in 1..30 : page[j].nestedTextarea)
                 THEN TextareaMatch
            ELSE NoMatch]

\* The selectors the pages are built from: of the textarea selectors two
\* exact test ids, a nested textarea and the bare 'textarea'; of the
\* contenteditable selectors a nested one, the Lexical editor and the bare
\* div; of the textbox selectors an exact test id, an aria-label and two
\* test-id patterns.
PageSelectors == {1, 2, 4, 30, 5, 16, 29, 10, 11, 26, 28}

\* The pages on which up to n of these selectors match, and those they imply.
ComposerPages(n) ==
    UNION {{ClosePage([k \in 1..30 |-> IF k \in S THEN f[k] ELSE NoMatch]) :
              f \in {g \in [S -> UNION {MatchKinds(k) : k \in PageSelectors}] :
                       \A k \in S : g[k] \in MatchKinds(k)}} :
           S \in {T \in SUBSET PageSelectors : Cardinality(T) <= n}}

Null == [selector |-> 0, node |-> "null"]

RECURSIVE ComposerFrom(_, _)
\* contentScript.js:49-67 - the loop over the selectors from rank k on.
ComposerFrom(page, k) ==
    IF k > 30 THEN Null
    ELSE LET el == page[k]
         IN  IF ~el.matched THEN ComposerFrom(page, k + 1)
             ELSE IF el.editable THEN [selector |-> k, node |-> "el"]
             ELSE IF el.nestedEditable THEN [selector |-> k, node |-> "nestedEditable"]
             ELSE IF el.textareaOrInput THEN [selector |-> k, node |-> "el"]
             ELSE IF el.nestedTextarea THEN [selector |-> k, node |-> "nestedTextarea"]
             ELSE ComposerFrom(page, k + 1)

\* Faulty variant: the match of the first matching selector is returned
\* without the tests on it.
getComposerFirstMatch(page) ==
    LET hits == {k \in 1..30 : page[k].matched}
    IN  IF hits = {} THEN Null
        ELSE [selector |-> CHOOSE k \in hits : \A j \in hits : k <= j, node |-> "el"]

\* contentScript.js:16-69 - getComposer()
getComposer(page) == ComposerFrom(page, 1)

\* The buttons of a page.  A button is given by the selectors of getSendButton
\* (rank 1..14, lines 95-108) that match it, by isStopButton(button), by
\* its text containing 'send', 'generate', 'create' or 'submit', by
\* isVisible(button), and by its being disabled (the property, or
\* aria-disabled="true").
ButtonKinds ==
    {[name |-> "data-testid=send-button", selectors |-> {1}, stop |-> FALSE, textMatch |-> FALSE],
     [name |-> "data-testid=composer-stop-button", selectors |-> {7}, stop |-> TRUE, textMatch |-> FALSE],
     [name |-> "aria-label=Send prompt", selectors |-> {11}, stop |-> FALSE, textMatch |-> FALSE],
     [name |-> "aria-label=Stop generating", selectors |-> {}, stop |-> TRUE, textMatch |-> FALSE],
     [name |-> "form submit", selectors |-> {14}, stop |-> FALSE, textMatch |-> FALSE],
     [name |-> "text=Create image", selectors |-> {}, stop |-> FALSE, textMatch |-> TRUE],
     [name |-> "text=Attach", selectors |-> {}, stop |-> FALSE, textMatch |-> FALSE]}

\* A visible button is enabled, disabled or aria-disabled; a hidden one is
\* enabled.
Buttons ==
    [kind : ButtonKinds, visible : {TRUE}, disabled : {"no", "disabled", "aria-disabled"}]
    \cup [kind : ButtonKinds, visible : {FALSE}, disabled : {"no"}]

RECURSIVE ButtonPages(_)
\* The button lists, in document order, of up to n buttons.
ButtonPages(n) ==
    IF n = 0 THEN {<<>>}
    ELSE LET fewer == ButtonPages(n - 1)
         IN  fewer \cup {Append(page, b) : page \in fewer, b \in Buttons}

\* contentScript.js:111-118, 129-133 - the tests a button has to pass.
Survives(button, includeDisabled) ==
    /\ button.visible
    /\ ~button.kind.stop
    /\ includeDisabled \/ button.disabled = "no"

First(hits) == IF hits = {} THEN 0 ELSE CHOOSE i \in hits : \A j \in hits : i <= j

RECURSIVE SendButtonFrom(_, _, _)
\* contentScript.js:109-137 - the loop over the selectors from rank k on,
\* then the loop over all buttons by their text.  The result is the position
\* of the button in the document, 0 for null.
SendButtonFrom(page, includeDisabled, k) ==
    IF k > 14
    THEN First({i \in 1..Len(page) :
                  Survives(page[i], includeDisabled) /\ page[i].kind.textMatch})
    ELSE LET hits == {i \in 1..Len(page) :
                        k \in page[i].kind.selectors /\ Survives(page[i], includeDisabled)}
         IN  IF hits # {} THEN First(hits)
             ELSE SendButtonFrom(page, includeDisabled, k + 1)

\* Faulty variant: the first surviving button in document order that any
\* selector or text matches.
getSendButtonDocumentOrder(page, includeDisabled) ==
    First({i \in 1..Len(page) :
             /\ Survives(page[i], includeDisabled)
             /\ page[i].kind.selectors # {} \/ page[i].kind.textMatch})

\* contentScript.js:92-141 - getSendButton(options)
getSendButton(page, includeDisabled) == SendButtonFrom(page, includeDisabled, 1)

\* contentScript.js:303-318 - isStreaming() on a page with or without a
\* streaming turn, with a spinner element that is shown, hidden or absent,
\* and with its buttons.  The selector of line 308 matches only buttons that
\* isStopButton accepts, so lines 308-314 find a visible stop button.
isStreaming(page) ==
    IF page.streamingTurn THEN TRUE
    ELSE IF page.spinner # "none" THEN TRUE
    ELSE IF \E i \in 1..Len(page.buttons) :
              page.buttons[i].visible /\ page.buttons[i].kind.stop
         THEN TRUE
    ELSE LET sendButton == getSendButton(page.buttons, TRUE)
         IN  sendButton # 0 /\ page.buttons[sendButton].disabled # "no"

\* The pages isStreaming is called on.
StreamingPages ==
    [streamingTurn : {FALSE}, spinner : {"none"}, buttons : ButtonPages(MaxButtons)]
    \cup [streamingTurn : BOOLEAN, spinner : {"none", "shown", "hidden"},
          buttons : ButtonPages(1)]

GetComposerCall ==
    /\ qry.fn = "getComposer"
    /\ qry.pc = "call"
    /\ qry' = [qry EXCEPT !.pc = "done", !.result = getComposer(qry.input)]

GetSendButtonCall ==
    /\ qry.fn = "getSendButton"
    /\ qry.pc = "call"
    /\ qry' = [qry EXCEPT !.pc = "done",
                          !.result = getSendButton(qry.input.buttons,
                                                   qry.input.includeDisabled)]

IsStreamingCall ==
    /\ qry.fn = "isStreaming"
    /\ qry.pc = "call"
    /\ qry' = [qry EXCEPT !.pc = "done", !.result = isStreaming(qry.input)]

DomInit ==
    /\ QueueInit
    /\ RetryIdle
    /\ WaitIdle
    /\ SendIdle
    /\ other = [rpc |-> "off"]
    /\ deliveries = {}
    /\ qry \in [fn : {"getComposer"}, pc : {"call"},
                input : ComposerPages(MaxMatches), result : {Null}]
               \cup [fn : {"getSendButton"}, pc : {"call"},
                     input : [buttons : ButtonPages(MaxButtons),
                              includeDisabled : BOOLEAN],
                     result : {0}]
               \cup [fn : {"isStreaming"}, pc : {"call"},
                     input : StreamingPages, result : {FALSE}]

DomNext ==
    \/ GetComposerCall /\ UNCHANGED <<queueVars, retryVars, waitVars, sendVars, other, deliveries>>
    \/ GetSendButtonCall /\ UNCHANGED <<queueVars, retryVars, waitVars, sendVars, other, deliveries>>
    \/ IsStreamingCall /\ UNCHANGED <<queueVars, retryVars, waitVars, sendVars, other, deliveries>>

DomSpec == DomInit /\ [][DomNext]_vars

\* The match of a selector gives a usable element.
Usable(el) ==
    el.matched /\ (el.editable \/ el.nestedEditable \/ el.textareaOrInput \/ el.nestedTextarea)

\* C27: getComposer always returns; it returns null exactly when no selector
\* yields a usable element, as on an empty document; otherwise its result
\* comes from the first selector in rank order that yields one: the match
\* itself if that is contenteditable or a textarea / input, else a
\* contenteditable or textarea descendant of it.
C27_GetComposerFirstUsable ==
    (qry.fn = "getComposer" /\ qry.pc = "done") =>
        LET page == qry.input
            usable == {k \in 1..30 : Usable(page[k])}
            r == qry.result
        IN  /\ (r = Null) = (usable = {})
            /\ r # Null =>
                 /\ r.selector \in usable
                 /\ \A j \in usable : r.selector <= j
                 /\ LET el == page[r.selector]
                    IN  /\ (r.node = "el") = (el.editable \/ el.textareaOrInput)
                        /\ r.node = "nestedEditable" => el.nestedEditable
                        /\ r.node = "nestedTextarea" => el.nestedTextarea
                        /\ r.node \in {"el", "nestedEditable", "nestedTextarea"}

\* C27 witness: the first matching selector gives a div that is not usable,
\* a later one a div with a textarea inside, which is returned.
C27_Witness ==
    /\ qry.fn = "getComposer"
    /\ qry.pc = "done"
    /\ qry.input[11].matched
    /\ ~Usable(qry.input[11])
    /\ qry.result = [selector |-> 26, node |-> "nestedTextarea"]

\* A button getSendButton may return: it survives the tests and a selector
\* or a text matches it.
Candidate(button, includeDisabled) ==
    /\ Survives(button, includeDisabled)
    /\ button.kind.selectors # {} \/ button.kind.textMatch

\* The best rank of the selectors matching a button, 15 for a match by text.
Rank(button) ==
    IF button.kind.selectors = {} THEN 15
    ELSE CHOOSE k \in button.kind.selectors : \A j \in button.kind.selectors : k <= j

\* C28: getSendButton returns no hidden button, no stop / cancel button and,
\* unless includeDisabled is set, no disabled or aria-disabled button; it
\* returns the candidate of the best selector rank and, within the rank, the
\* first in document order; null exactly when there is no candidate.
C28_SendButtonBestSurvivor ==
    (qry.fn = "getSendButton" /\ qry.pc = "done") =>
        LET page == qry.input.buttons
            inc == qry.input.includeDisabled
            cands == {i \in 1..Len(page) : Candidate(page[i], inc)}
            r == qry.result
        IN  /\ (r = 0) = (cands = {})
            /\ r # 0 =>
                 /\ r \in 1..Len(page)
                 /\ page[r].visible
                 /\ ~page[r].kind.stop
                 /\ page[r].disabled # "no" => inc
                 /\ \A j \in cands :
                       \/ Rank(page[r]) < Rank(page[j])
                       \/ Rank(page[r]) = Rank(page[j]) /\ r <= j

\* C28 witness: the second button of the page is returned, the first being
\* a candidate of a worse rank.
C28_Witness ==
    /\ qry.fn = "getSendButton"
    /\ qry.pc = "done"
    /\ Len(qry.input.buttons) = 2
    /\ Candidate(qry.input.buttons[1], qry.input.includeDisabled)
    /\ qry.result = 2

\* C25: isStreaming returns true exactly when a streaming turn exists, or a
\* visible spinner exists, or a visible stop / cancel button exists, or the
\* resolved send button is disabled.
C25_BusyExactly ==
    (qry.fn = "isStreaming" /\ qry.pc = "done") =>
        LET page == qry.input
            sendButton == getSendButton(page.buttons, TRUE)
        IN  qry.result =
              (\/ page.streamingTurn
               \/ page.spinner = "shown"
               \/ \E i \in 1..Len(page.buttons) :
                    page.buttons[i].visible /\ page.buttons[i].kind.stop
               \/ sendButton # 0 /\ page.buttons[sendButton].disabled # "no")

\* =========================================================== the popup ==

MaxRawLen == 3

\* A text is the sequence of its characters.
Chars == {"a", "b", " ", "|", "\n", "\r"}
Whitespace == {" ", "\n", "\r"}

RECURSIVE TrimStart(_)
TrimStart(text) ==
    IF text # <<>> /\ Head(text) \in Whitespace THEN TrimStart(Tail(text)) ELSE text

RECURSIVE TrimEnd(_)
TrimEnd(text) ==
    IF text # <<>> /\ text[Len(text)] \in Whitespace
    THEN TrimEnd(SubSeq(text, 1, Len(text) - 1))
    ELSE text

\* String.prototype.trim()
Trim(text) == TrimEnd(TrimStart(text))

\* The length of the separator match at the head of text, 0 for none: the
\* separator string itself, or /\r?\n/ for an empty separator.
MatchAtHead(text, separator) ==
    IF separator # <<>>
    THEN (IF Len(separator) <= Len(text) /\ SubSeq(text, 1, Len(separator)) = separator
          THEN Len(separator) ELSE 0)
    ELSE IF text # <<>> /\ Head(text) = "\n" THEN 1
    ELSE IF Len(text) >= 2 /\ text[1] = "\r" /\ text[2] = "\n" THEN 2
    ELSE 0

RECURSIVE Split(_, _, _)
\* rawText.split(separator) / rawText.split(/\r?\n/): the pieces of text,
\* piece being the characters of the current piece read so far.
Split(text, separator, piece) ==
    IF text = <<>> THEN <<piece>>
    ELSE LET n == MatchAtHead(text, separator)
         IN  IF n > 0
             THEN <<piece>> \o Split(SubSeq(text, n + 1, Len(text)), separator, <<>>)
             ELSE Split(Tail(text), separator, Append(piece, Head(text)))

Truthy(text) == text # <<>>

RECURSIVE MapTrim(_)
MapTrim(pieces) ==
    IF pieces = <<>> THEN <<>> ELSE <<Trim(Head(pieces))>> \o MapTrim(Tail(pieces))

\* Faulty variant: the empty pieces are kept.
parsePromptsKeepsEmpty(rawText, separator) == MapTrim(Split(rawText, separator, <<>>))

\* popup.js:18-26 - parsePrompts(rawText, separator)
parsePrompts(rawText, separator) ==
    SelectSeq(MapTrim(Split(rawText, separator, <<>>)), Truthy)

\* chrome.runtime.lastError messages of a failed tabs.sendMessage, and the
\* messages of a rejected scripting.executeScript (Undefined: no message).
NoReceiverText == "Could not establish connection. Receiving end does not exist."
NoReceiverLowerText == "receiving end does not exist"
PortClosedText == "The message port closed before a response was received."
CannotAccessText == "Cannot access contents of the page."
CouldNotInjectText == "Could not inject the helper script. "
UnknownInjectText == "Unknown error while injecting content script."

\* popup.js:42 - /Receiving end does not exist/i.test(message)
NoReceiver(message) == message \in {NoReceiverText, NoReceiverLowerText}

\* A line of the status section: a fixed text, the number written into it
\* (0 when it has none) and the texts appended to it.
Line(text, count, detail) == [text |-> text, count |-> count, detail |-> detail]

FocusTabText == "Please focus the ChatGPT tab before starting the queue."
CouldNotConnectText ==
    "Could not connect to the ChatGPT tab. Please reload the page and try again."
UnknownErrorText == "Unknown error."
ProgressText == "Sending prompt 1/1"

\* popup.js:83-98 - the click on Start up to the first await: the status is
\* reset and the prompts are parsed; without prompts the handler ends with
\* its status line, otherwise the button is disabled, the status line is
\* written and tabs.query is awaited.
StartQueue ==
    /\ qry.fn = "startQueue"
    /\ qry.pc = "call"
    /\ LET prompts == parsePrompts(Trim(qry.input.raw), qry.input.separator)
       IN  IF Len(prompts) = 0
           THEN qry' = [qry EXCEPT
                          !.pc = "done",
                          !.result.status =
                             <<Line("Please provide at least one prompt.", 0, <<>>)>>]
           ELSE qry' = [qry EXCEPT
                          !.pc = "tab",
                          !.result.startDisabled = TRUE,
                          !.result.status =
                             <<Line("Starting queue with prompt(s)...", Len(prompts), <<>>)>>]

\* What chrome.tabs.query answers: lastError with or without a message, no
\* tab, a tab without id, a tab with its url.
TabOutcomes ==
    [error : {"No current window", ""}, exists : {FALSE}, hasId : {FALSE}, url : {""}]
    \cup [error : {Undefined}, exists : {FALSE}, hasId : {FALSE}, url : {""}]
    \cup [error : {Undefined}, exists : {TRUE}, hasId : BOOLEAN,
          url : {"https://chatgpt.com/c/1", "https://chat.openai.com/",
                 "https://example.com/", ""}]

\* popup.js:74 - /^(https:\/\/chat\.openai\.com\/|https:\/\/chatgpt\.com\/)/.test(url)
isChatGpt(url) == url \in {"https://chatgpt.com/c/1", "https://chat.openai.com/"}

\* popup.js:111-118 - the catch and finally blocks of startQueue for a
\* thrown error with the message (a sequence of its parts).
StartQueueFailed(message) ==
    qry' = [qry EXCEPT
              !.pc = "done",
              !.result.startDisabled = FALSE,
              !.result.status =
                 Append(@, Line("Failed: ", 0,
                                IF message \in {<<>>, <<"">>} THEN <<UnknownErrorText>>
                                ELSE IF \E i \in 1..Len(message) : NoReceiver(message[i])
                                THEN <<CouldNotConnectText>>
                                ELSE message))]

\* popup.js:61-81, 98-103 - tabs.query answers: getActiveChatGptTab throws
\* for lastError, for no tab, no id or a tab that is not ChatGPT; otherwise
\* the trigger is handed to sendMessageToTab, which is awaited.
TabSettles ==
    /\ qry.fn = "startQueue"
    /\ qry.pc = "tab"
    /\ \E o \in TabOutcomes :
         IF o.error # Undefined THEN StartQueueFailed(<<o.error>>)
         ELSE IF ~o.exists \/ ~o.hasId \/ ~isChatGpt(o.url)
         THEN StartQueueFailed(<<FocusTabText>>)
         ELSE qry' = [qry EXCEPT
                        !.pc = "reply",
                        !.result.sent =
                           <<[type |-> "START_PROMPT_QUEUE",
                              prompts |-> parsePrompts(Trim(qry.input.raw),
                                                       qry.input.separator)]>>]

\* How sendMessageToTab settles: with a response of the content script,
\* with no response (truthy FALSE), or with a thrown error.
TriggerOutcomes ==
    [kind : {"return"}, truthy : {TRUE},
     response : {OkReply, ErrorReply(ErrAlreadyRunning), ErrorReply("")},
     message : {<<>>}]
    \cup [kind : {"return"}, truthy : {FALSE}, response : {ErrorReply("")},
          message : {<<>>}]
    \cup [kind : {"throw"}, truthy : {FALSE}, response : {ErrorReply("")},
          message : {<<NoReceiverText>>, <<PortClosedText>>,
                     <<CouldNotInjectText, CannotAccessText>>}]

\* popup.js:100-118 - sendMessageToTab settles: the status line for the
\* response or the failure is written and the button is enabled again.
ReplySettles ==
    /\ qry.fn = "startQueue"
    /\ qry.pc = "reply"
    /\ \E o \in TriggerOutcomes :
         IF o.kind = "throw" THEN StartQueueFailed(o.message)
         ELSE qry' = [qry EXCEPT
                        !.pc = "done",
                        !.result.startDisabled = FALSE,
                        !.result.status =
                           Append(@, IF o.truthy /\ o.response.ok
                                     THEN Line("Queue complete.", 0, <<>>)
                                     ELSE IF o.truthy /\ o.response.error # ""
                                     THEN Line("Error: ", 0, <<o.response.error>>)
                                     ELSE Line("Queue finished with unknown status.",
                                               0, <<>>))]

\* popup.js:122-126 - the onMessage listener: the text of a PROMPT_PROGRESS
\* message is appended to the status.  One such message is delivered, at
\* any time the popup is open.
ProgressMessage ==
    /\ qry.fn = "startQueue"
    /\ \A i \in 1..Len(qry.result.status) : qry.result.status[i].detail # <<ProgressText>>
    /\ qry' = [qry EXCEPT !.result.status = Append(@, Line("", 0, <<ProgressText>>))]

\* What the tab answers to one send: a response of the content script or a
\* lastError.
SendOutcomes ==
    {[ok |-> TRUE, value |-> OkReply], [ok |-> TRUE, value |-> ErrorReply(ErrComposer)]}
    \cup {[ok |-> FALSE, value |-> m] :
             m \in {NoReceiverText, NoReceiverLowerText, PortClosedText}}

InjectOutcomes ==
    {[ok |-> TRUE, value |-> Undefined], [ok |-> FALSE, value |-> CannotAccessText],
     [ok |-> FALSE, value |-> Undefined]}

\* popup.js:28-40 - sendMessageToTab is called: send() issues the message.
SendMessageToTab ==
    /\ qry.fn = "sendMessageToTab"
    /\ qry.pc = "call"
    /\ qry' = [qry EXCEPT !.pc = "send1", !.trace = <<"send">>]

\* Faulty variant: every failure of the first send is answered by injecting
\* the content script.
FirstSendSettlesAlwaysInjects ==
    /\ qry.fn = "sendMessageToTab"
    /\ qry.pc = "send1"
    /\ \E o \in SendOutcomes :
         IF o.ok
         THEN qry' = [qry EXCEPT !.pc = "done", !.outcomes = Append(@, o),
                                 !.result = [kind |-> "return", value |-> o.value]]
         ELSE qry' = [qry EXCEPT !.pc = "inject", !.outcomes = Append(@, o),
                                 !.trace = Append(@, "inject")]

\* popup.js:39-51 - the first send settles: its response is returned; an
\* error other than "Receiving end does not exist" is rethrown; otherwise
\* scripting.executeScript is called.
FirstSendSettles ==
    /\ qry.fn = "sendMessageToTab"
    /\ qry.pc = "send1"
    /\ \E o \in SendOutcomes :
         IF o.ok
         THEN qry' = [qry EXCEPT !.pc = "done", !.outcomes = Append(@, o),
                                 !.result = [kind |-> "return", value |-> o.value]]
         ELSE IF ~NoReceiver(o.value)
         THEN qry' = [qry EXCEPT !.pc = "done", !.outcomes = Append(@, o),
                                 !.result = [kind |-> "throw", value |-> <<o.value>>]]
         ELSE qry' = [qry EXCEPT !.pc = "inject", !.outcomes = Append(@, o),
                                 !.trace = Append(@, "inject")]

\* popup.js:46-57 - executeScript settles: a rejection is thrown as "Could
\* not inject the helper script. <message>", otherwise send() is called again.
InjectSettles ==
    /\ qry.fn = "sendMessageToTab"
    /\ qry.pc = "inject"
    /\ \E o \in InjectOutcomes :
         IF o.ok
         THEN qry' = [qry EXCEPT !.pc = "send2", !.outcomes = Append(@, o),
                                 !.trace = Append(@, "send")]
         ELSE qry' = [qry EXCEPT
                        !.pc = "done", !.outcomes = Append(@, o),
                        !.result =
                           [kind |-> "throw",
                            value |-> <<CouldNotInjectText,
                                        IF o.value = Undefined THEN UnknownInjectText
                                        ELSE o.value>>]]

\* popup.js:57 - the second send settles: its response is returned, its
\* error is thrown.
SecondSendSettles ==
    /\ qry.fn = "sendMessageToTab"
    /\ qry.pc = "send2"
    /\ \E o \in SendOutcomes :
         qry' = [qry EXCEPT
                   !.pc = "done", !.outcomes = Append(@, o),
                   !.result = IF o.ok THEN [kind |-> "return", value |-> o.value]
                              ELSE [kind |-> "throw", value |-> <<o.value>>]]

\* ------------------------------------------------- saved sequences --

MaxSaves == 2

\* editingSequenceId = null
NoEdit == 0

\* What localStorage holds under STORAGE_KEY: nothing, a text that is not
\* JSON, JSON that is not an array, or the JSON text of an array of items.
NoStorage == [kind |-> "null"]
CorruptStorage == [kind |-> "corrupt"]
NotArrayStorage == [kind |-> "object"]

\* JSON.stringify of one sequence: a property whose value is undefined is
\* left out.
StringifyItem(sequence) ==
    IF sequence.description = Undefined
    THEN [id |-> sequence.id, name |-> sequence.name, prompts |-> sequence.prompts,
          createdAt |-> sequence.createdAt, updatedAt |-> sequence.updatedAt]
    ELSE sequence

\* JSON.parse of one stored item: reading a missing property gives undefined.
ParseItem(item) ==
    [id |-> item.id, name |-> item.name,
     description |-> IF "description" \in DOMAIN item THEN item.description ELSE Undefined,
     prompts |-> item.prompts, createdAt |-> item.createdAt, updatedAt |-> item.updatedAt]

\* contentScript.js:429-445 - loadSequences(): the list read from storage.
loadSequences(storage) ==
    IF storage.kind = "array"
    THEN [i \in 1..Len(storage.items) |-> ParseItem(storage.items[i])]
    ELSE <<>>

\* contentScript.js:447-450 - persistSequences() when setItem succeeds: what
\* storage holds afterwards.
persistSequences(list) ==
    [kind |-> "array", items |-> [i \in 1..Len(list) |-> StringifyItem(list[i])]]

\* contentScript.js:408-410 - normalizePrompts(prompts)
normalizePrompts(prompts) == SelectSeq(MapTrim(prompts), Truthy)

\* A sequence saved by an earlier session.
LegacyItem ==
    [id |-> MaxSaves + 1, name |-> <<"b">>, prompts |-> <<<<"a">>>>,
     createdAt |-> 0, updatedAt |-> 0]

\* The fields of the form when Save is clicked: name, description, prompt
\* list and separator.
NameInputs == {<<>>, <<" ", "a">>}
DescriptionInputs == {<<>>, <<"b">>}
PromptInputs == {<<"\n">>, <<"a", "\n", " ", "\n", "b">>}
SeparatorInputs == {<<>>, <<"|">>}

\* Faulty variant: a failed persist leaves the changed list in memory.
handleSaveSequenceNoRollback ==
    /\ qry.fn = "sequences"
    /\ \E nameInput \in NameInputs, descriptionInput \in DescriptionInputs,
          raw \in PromptInputs, separator \in SeparatorInputs, ok \in BOOLEAN :
         LET name == Trim(nameInput)
             description == Trim(descriptionInput)
             prompts == normalizePrompts(parsePrompts(raw, separator))
             now == qry.clock + 1
             updated == [i \in 1..Len(qry.sequences) |->
                           IF qry.sequences[i].id # qry.editingSequenceId
                           THEN qry.sequences[i]
                           ELSE [qry.sequences[i] EXCEPT
                                   !.name = name,
                                   !.description = IF description # <<>> THEN description
                                                   ELSE Undefined,
                                   !.prompts = prompts,
                                   !.updatedAt = now]]
             created == <<[id |-> now, name |-> name,
                           description |-> IF description # <<>> THEN description
                                           ELSE Undefined,
                           prompts |-> prompts, createdAt |-> now, updatedAt |-> now]>>
                        \o qry.sequences
             changed == IF qry.editingSequenceId # NoEdit THEN updated ELSE created
         IN  IF name = <<>>
             THEN qry' = [qry EXCEPT
                            !.feedback = [message |-> "Please provide a sequence name before saving.",
                                          variant |-> "error"],
                            !.last = [op |-> "save", outcome |-> "rejected"]]
             ELSE IF Len(prompts) = 0
             THEN qry' = [qry EXCEPT
                            !.feedback = [message |-> "Add at least one prompt to save the sequence.",
                                          variant |-> "error"],
                            !.last = [op |-> "save", outcome |-> "rejected"]]
             ELSE /\ qry.clock < MaxSaves
                  /\ IF ok
                     THEN qry' = [qry EXCEPT
                                    !.clock = now,
                                    !.sequences = changed,
                                    !.storage = persistSequences(changed),
                                    !.editingSequenceId = NoEdit,
                                    !.feedback = [message |-> IF qry.editingSequenceId # NoEdit
                                                              THEN "Updated" ELSE "Saved",
                                                  variant |-> "success"],
                                    !.last = [op |-> "save", outcome |-> "persisted"]]
                     ELSE qry' = [qry EXCEPT
                                    !.clock = now,
                                    !.sequences = changed,
                                    !.feedback = [message |-> "Unable to save the sequence. Check storage permissions.",
                                                  variant |-> "error"],
                                    !.last = [op |-> "save", outcome |-> "failed"]]

\* contentScript.js:569-629 - handleSaveSequence(); the prompt list is cut
\* at the separator field's text (572), at line breaks when that field is
\* empty; a save that passed the validation stamps the sequence with the current time, and setItem
\* succeeds (ok) or throws.
handleSaveSequence ==
    /\ qry.fn = "sequences"
    /\ \E nameInput \in NameInputs, descriptionInput \in DescriptionInputs,
          raw \in PromptInputs, separator \in SeparatorInputs, ok \in BOOLEAN :
         LET name == Trim(nameInput)
             description == Trim(descriptionInput)
             prompts == normalizePrompts(parsePrompts(raw, separator))
             now == qry.clock + 1
             updated == [i \in 1..Len(qry.sequences) |->
                           IF qry.sequences[i].id # qry.editingSequenceId
                           THEN qry.sequences[i]
                           ELSE [qry.sequences[i] EXCEPT
                                   !.name = name,
                                   !.description = IF description # <<>> THEN description
                                                   ELSE Undefined,
                                   !.prompts = prompts,
                                   !.updatedAt = now]]
             created == <<[id |-> now, name |-> name,
                           description |-> IF description # <<>> THEN description
                                           ELSE Undefined,
                           prompts |-> prompts, createdAt |-> now, updatedAt |-> now]>>
                        \o qry.sequences
             changed == IF qry.editingSequenceId # NoEdit THEN updated ELSE created
         IN  IF name = <<>>
             THEN qry' = [qry EXCEPT
                            !.feedback = [message |-> "Please provide a sequence name before saving.",
                                          variant |-> "error"],
                            !.last = [op |-> "save", outcome |-> "rejected"]]
             ELSE IF Len(prompts) = 0
             THEN qry' = [qry EXCEPT
                            !.feedback = [message |-> "Add at least one prompt to save the sequence.",
                                          variant |-> "error"],
                            !.last = [op |-> "save", outcome |-> "rejected"]]
             ELSE /\ qry.clock < MaxSaves
                  /\ IF ok
                     THEN qry' = [qry EXCEPT
                                    !.clock = now,
                                    !.sequences = changed,
                                    !.storage = persistSequences(changed),
                                    !.editingSequenceId = NoEdit,
                                    !.feedback = [message |-> IF qry.editingSequenceId # NoEdit
                                                              THEN "Updated" ELSE "Saved",
                                                  variant |-> "success"],
                                    !.last = [op |-> "save", outcome |-> "persisted"]]
                     ELSE qry' = [qry EXCEPT
                                    !.clock = now,
                                    !.sequences = loadSequences(qry.storage),
                                    !.feedback = [message |-> "Unable to save the sequence. Check storage permissions.",
                                                  variant |-> "error"],
                                    !.last = [op |-> "save", outcome |-> "failed"]]

\* contentScript.js:524-539 - the click handler of the Delete button of a
\* rendered sequence; nothing happens when the user does not confirm.
DeleteClick ==
    /\ qry.fn = "sequences"
    /\ \E i \in 1..Len(qry.sequences), confirmed, ok \in BOOLEAN :
         LET id == qry.sequences[i].id
             keep(item) == item.id # id
             filtered == SelectSeq(qry.sequences, keep)
         IN  IF ~confirmed THEN qry' = qry
             ELSE IF ok
             THEN qry' = [qry EXCEPT
                            !.sequences = filtered,
                            !.storage = persistSequences(filtered),
                            !.editingSequenceId = IF @ = id THEN NoEdit ELSE @,
                            !.feedback = [message |-> "Sequence deleted.",
                                          variant |-> "success"],
                            !.last = [op |-> "delete", outcome |-> "persisted"]]
             ELSE qry' = [qry EXCEPT
                            !.sequences = loadSequences(qry.storage),
                            !.feedback = [message |-> "Could not delete the sequence due to a storage error.",
                                          variant |-> "error"],
                            !.last = [op |-> "delete", outcome |-> "failed"]]

\* contentScript.js:509-519 - the click handler of the Edit button of a
\* rendered sequence.
EditClick ==
    /\ qry.fn = "sequences"
    /\ \E i \in 1..Len(qry.sequences) :
         qry' = [qry EXCEPT
                   !.editingSequenceId = qry.sequences[i].id,
                   !.feedback = [message |-> "Editing", variant |-> "success"],
                   !.last = [op |-> "edit", outcome |-> "none"]]

\* contentScript.js:499-503 - the click handler of the Load prompts button
\* of a rendered sequence: its prompts are put into the prompt field.
LoadClick ==
    /\ qry.fn = "sequences"
    /\ \E i \in 1..Len(qry.sequences) :
         qry' = [qry EXCEPT
                   !.feedback = [message |-> "Loaded", variant |-> "success"],
                   !.last = [op |-> "load", outcome |-> "none"]]

\* contentScript.js:631-634 - handleCancelEdit(): the form is reset.
handleCancelEdit ==
    /\ qry.fn = "sequences"
    /\ qry' = [qry EXCEPT
                 !.editingSequenceId = NoEdit,
                 !.feedback = [message |-> "Edit cancelled.", variant |-> "success"],
                 !.last = [op |-> "cancel", outcome |-> "none"]]

\* contentScript.js:737-752 - the callback of chrome.storage.local.get: a
\* list found there replaces the one in memory and is persisted, the
\* result of persistSequences() being ignored.
Migrate ==
    /\ qry.fn = "sequences"
    /\ ~qry.migrated
    /\ \E stored \in {NoStorage, persistSequences(<<ParseItem(LegacyItem)>>)}, ok \in BOOLEAN :
         IF stored.kind # "array"
         THEN qry' = [qry EXCEPT !.migrated = TRUE,
                                 !.last = [op |-> "migrate", outcome |-> "none"]]
         ELSE qry' = [qry EXCEPT
                        !.migrated = TRUE,
                        !.sequences = loadSequences(stored),
                        !.storage = IF ok THEN persistSequences(loadSequences(stored)) ELSE @,
                        !.last = [op |-> "migrate",
                                  outcome |-> IF ok THEN "persisted" ELSE "failed"]]

\* contentScript.js:382-385, 734 - the popup after its script ran:
\* loadSequences() has read what storage holds.
SequencesInit ==
    {[fn |-> "sequences", storage |-> st, sequences |-> loadSequences(st),
      editingSequenceId |-> NoEdit, feedback |-> [message |-> "", variant |-> "none"],
      clock |-> 0, migrated |-> FALSE, last |-> [op |-> "none", outcome |-> "none"]] :
        st \in {NoStorage, CorruptStorage, NotArrayStorage, persistSequences(<<>>),
                persistSequences(<<ParseItem(LegacyItem)>>)}}

RECURSIVE Texts(_)
\* The texts of up to n characters.
Texts(n) ==
    IF n = 0 THEN {<<>>}
    ELSE LET shorter == Texts(n - 1)
         IN  shorter \cup {Append(t, c) : t \in shorter, c \in Chars}

PopupInit ==
    /\ QueueInit
    /\ RetryIdle
    /\ WaitIdle
    /\ SendIdle
    /\ other = [rpc |-> "off"]
    /\ deliveries = {}
    /\ qry \in [fn : {"startQueue"}, pc : {"call"},
                 input : [raw : Texts(MaxRawLen), separator : {<<>>, <<"|">>}],
                 result : {[status |-> <<>>, sent |-> <<>>, startDisabled |-> FALSE]}]
               \cup [fn : {"sendMessageToTab"}, pc : {"call"},
                      input : {[type |-> "START_PROMPT_QUEUE", prompts |-> <<<<"a">>>>]},
                      trace : {<<>>}, outcomes : {<<>>}, result : {[kind |-> "none"]}]
               \cup SequencesInit

PopupNext ==
    \/ StartQueue /\ UNCHANGED <<queueVars, retryVars, waitVars, sendVars, other, deliveries>>
    \/ TabSettles /\ UNCHANGED <<queueVars, retryVars, waitVars, sendVars, other, deliveries>>
    \/ ReplySettles /\ UNCHANGED <<queueVars, retryVars, waitVars, sendVars, other, deliveries>>
    \/ ProgressMessage /\ UNCHANGED <<queueVars, retryVars, waitVars, sendVars, other, deliveries>>
    \/ SendMessageToTab /\ UNCHANGED <<queueVars, retryVars, waitVars, sendVars, other, deliveries>>
    \/ FirstSendSettles /\ UNCHANGED <<queueVars, retryVars, waitVars, sendVars, other, deliveries>>
    \/ InjectSettles /\ UNCHANGED <<queueVars, retryVars, waitVars, sendVars, other, deliveries>>
    \/ SecondSendSettles /\ UNCHANGED <<queueVars, retryVars, waitVars, sendVars, other, deliveries>>
    \/ handleSaveSequence /\ UNCHANGED <<queueVars, retryVars, waitVars, sendVars, other, deliveries>>
    \/ DeleteClick /\ UNCHANGED <<queueVars, retryVars, waitVars, sendVars, other, deliveries>>
    \/ EditClick /\ UNCHANGED <<queueVars, retryVars, waitVars, sendVars, other, deliveries>>
    \/ LoadClick /\ UNCHANGED <<queueVars, retryVars, waitVars, sendVars, other, deliveries>>
    \/ handleCancelEdit /\ UNCHANGED <<queueVars, retryVars, waitVars, sendVars, other, deliveries>>
    \/ Migrate /\ UNCHANGED <<queueVars, retryVars, waitVars, sendVars, other, deliveries>>

PopupSpec == PopupInit /\ [][PopupNext]_vars

\* The characters at which the text is cut: the separator, or the line feed
\* when the separator is empty.
CutAt(input) ==
    {i \in 1..Len(input.raw) :
        input.raw[i] = (IF input.separator = <<>> THEN "\n" ELSE input.separator[1])}

\* The piece of the text that starts after the cut (or start) at position i.
PieceAfter(input, i) ==
    LET later == {j \in CutAt(input) : j > i}
        end == IF later = {} THEN Len(input.raw) + 1
               ELSE CHOOSE j \in later : \A k \in later : j <= k
    IN  SubSeq(input.raw, i + 1, end - 1)

\* C33: the prompts startQueue sends are the pieces between the separators
\* (line breaks for an empty separator), trimmed, without the empty ones, in
\* their order and with their duplicates; every prompt sent is a non-empty
\* string, and no trigger is sent when no piece is left: the handler then
\* ends at once with its status line and the button enabled.
C33_PromptListWellFormed ==
    qry.fn = "startQueue" =>
        LET starts == {0} \cup CutAt(qry.input)
            kept == {i \in starts : Trim(PieceAfter(qry.input, i)) # <<>>}
            sent == qry.result.sent
        IN  /\ kept = {} =>
                 /\ sent = <<>>
                 /\ qry.pc \in {"call", "done"}
                 /\ ~qry.result.startDisabled
            /\ Len(sent) <= 1
            /\ sent # <<>> =>
                 LET prompts == sent[1].prompts
                 IN  /\ sent[1].type = "START_PROMPT_QUEUE"
                     /\ Len(prompts) = Cardinality(kept)
                     /\ \A n \in 1..Len(prompts) :
                           /\ prompts[n] # <<>>
                           /\ \E i \in kept :
                                 /\ Cardinality({j \in kept : j <= i}) = n
                                 /\ prompts[n] = Trim(PieceAfter(qry.input, i))

\* C33 witness: the same prompt twice, sent once the tab was found, and the
\* handler has ended.
C33_Witness ==
    /\ qry.fn = "startQueue"
    /\ qry.pc = "done"
    /\ qry.input.raw = <<"a", "|", "a">>
    /\ qry.input.separator = <<"|">>
    /\ qry.result.sent = <<[type |-> "START_PROMPT_QUEUE", prompts |-> <<<<"a">>, <<"a">>>>]>>

\* The number of steps of the kind in the trace.
Count(trace, kind) == Cardinality({i \in 1..Len(trace) : trace[i] = kind})

\* C38: sendMessageToTab sends at most twice and injects at most once;
\* it injects, and sends again, only after a first send that failed with
\* "Receiving end does not exist"; any other failure of the first send is
\* rethrown as it is with nothing injected; a failed injection is thrown as
\* "Could not inject the helper script. ..." with no second send.
C38_InjectOnlyWithoutReceiver ==
    qry.fn = "sendMessageToTab" =>
        /\ IsPrefix(qry.trace, <<"send", "inject", "send">>)
        /\ Count(qry.trace, "send") <= 2
        /\ Count(qry.trace, "inject") <= 1
        /\ Len(qry.trace) >= 2 =>
              /\ ~qry.outcomes[1].ok
              /\ qry.outcomes[1].value \in {NoReceiverText, NoReceiverLowerText}
        /\ (/\ qry.pc = "done"
            /\ ~qry.outcomes[1].ok
            /\ qry.outcomes[1].value = PortClosedText)
           => /\ qry.trace = <<"send">>
              /\ qry.result = [kind |-> "throw", value |-> <<PortClosedText>>]
        /\ (qry.pc = "done" /\ Len(qry.outcomes) >= 2 /\ ~qry.outcomes[2].ok)
           => /\ qry.trace = <<"send", "inject">>
              /\ qry.result.kind = "throw"
              /\ qry.result.value[1] = CouldNotInjectText

\* C38 witness: the first send found no receiver, the content script was
\* injected and the second send brought the reply of the content script.
C38_Witness ==
    /\ qry.fn = "sendMessageToTab"
    /\ qry.pc = "done"
    /\ qry.trace = <<"send", "inject", "send">>
    /\ qry.outcomes[1].value = NoReceiverText
    /\ qry.result = [kind |-> "return", value |-> OkReply]

\* C39: right after a save or a delete, persisted or not, the list in
\* memory is the list storage holds (none counting as the empty list), and
\* after a failed persist an error is shown; a failed persist leaves storage
\* as it was and puts the list read from it back in memory; a rejected save
\* changes neither the list in memory nor storage.
C39_MemoryMatchesStorage ==
    /\ [](qry.fn = "sequences" =>
            /\ (qry.last.op \in {"save", "delete"} /\ qry.last.outcome # "rejected")
               => /\ qry.sequences = loadSequences(qry.storage)
                  /\ qry.storage.kind = "array" =>
                        qry.storage = persistSequences(qry.sequences)
            /\ qry.last.outcome = "failed" /\ qry.last.op # "migrate"
               => qry.feedback.variant = "error")
    /\ [][qry.fn = "sequences" =>
            /\ (qry'.last.outcome = "failed" /\ qry'.last.op # "migrate")
               => /\ qry'.storage = qry.storage
                  /\ qry'.sequences = loadSequences(qry.storage)
            /\ qry'.last.outcome = "rejected"
               => /\ qry'.sequences = qry.sequences
                  /\ qry'.storage = qry.storage
                  /\ qry'.feedback.variant = "error"]_vars

\* C39 witness: a list taken over from chrome.storage could not be persisted,
\* so that memory and storage differed, and the save of a new sequence
\* that then failed too has put the stored list - none - back in memory.
C39_Witness ==
    /\ qry.fn = "sequences"
    /\ qry.migrated
    /\ qry.last = [op |-> "save", outcome |-> "failed"]
    /\ qry.storage = NoStorage
    /\ qry.sequences = <<>>
    /\ qry.feedback.variant = "error"

\* ======================================================= queue claims ==

\* processPrompts of trigger t has been entered and has not left its finally.
InProgress(t) == run[t].pc \in (SyncPcs \cup TimerPcs) \ {"settled"}

\* The run of trigger t has thrown.
Failed(t) == run[t].outcome \notin {"none", "ok"}

RunErrors == {ErrComposer, ErrSendButton, ErrTimeout, ErrType}

\* C1: a trigger delivered while isProcessing is true starts no run: it is
\* answered at once with the "already running" error, the flag stays set and
\* every run and every other trigger's replies are left as they were.
C1_SingleFlightRejection ==
    [][(received' = received + 1 /\ isProcessing) =>
          /\ isProcessing'
          /\ replies'[received'] = <<ErrorReply(ErrAlreadyRunning)>>
          /\ run'[received'].pc = "rejected"
          /\ run'[received'].sent = <<>>
          /\ \A u \in TriggerIds \ {received'} :
                run'[u] = run[u] /\ replies'[u] = replies[u]]_vars

\* C1 witness: a trigger was rejected while the run of an earlier one is
\* suspended in the middle of its prompts.
C1_Witness ==
    \E t, u \in TriggerIds :
        /\ run[u].pc = "rejected"
        /\ replies[u] = <<ErrorReply(ErrAlreadyRunning)>>
        /\ run[t].pc = "waitPoll"
        /\ run[t].sent # <<>>
        /\ isProcessing

\* C2: at no time are two processPrompts executions in progress.
C2_AtMostOneRun == Cardinality({t \in TriggerIds : InProgress(t)}) <= 1

\* C2 witness: a second trigger has been delivered while the first run was
\* suspended on a timer, and the first run is still suspended.
C2_Witness ==
    /\ received = 2
    /\ run[1].pc \in TimerPcs
    /\ run[2].pc = "rejected"

\* C3: a run over a non-empty list that completes has handed exactly the
\* list, in order, to sendPrompt; and at every moment the number of prompts
\* handed to sendPrompt exceeds by at most one the number of
\* waitForCompletion calls that returned for a prompt.
C3_OncePerPromptInOrder ==
    \A t \in TriggerIds :
        /\ (run[t].outcome = "ok" /\ run[t].prompts # <<>>) =>
              /\ run[t].sent = run[t].prompts
              /\ run[t].waited = Len(run[t].prompts)
        /\ Len(run[t].sent) <= run[t].waited + 1

\* C3 witness: a run over two different prompts has completed.
C3_Witness ==
    \E t \in TriggerIds :
        /\ run[t].pc = "settled"
        /\ run[t].outcome = "ok"
        /\ run[t].sent = <<"a", "b">>

\* C4: isProcessing is true exactly while a processPrompts execution is
\* between its entry and the end of its finally block, whatever the exit.
C4_FlagFollowsRun == isProcessing <=> (\E t \in TriggerIds : InProgress(t))

\* C4 witness: a run that failed with the completion timeout has been
\* answered and a later trigger has been accepted.
C4_Witness ==
    \E t, u \in TriggerIds :
        /\ replies[t] = <<ErrorReply(ErrTimeout)>>
        /\ t < u
        /\ InProgress(u)

\* C9: the prompts handed to sendPrompt are always a prefix of the request
\* list; once a step has failed the run only unwinds (no further sendPrompt),
\* what was sent stays sent, and the reply carries the failure's message.
C9_AbortWithoutRollback ==
    /\ [](\A t \in TriggerIds :
            /\ IsPrefix(run[t].sent, run[t].prompts)
            /\ Failed(t) => run[t].pc \in {"finally", "settled"})
    /\ [][\A t \in TriggerIds :
            /\ (InProgress(t) /\ InProgress(t)') => IsPrefix(run[t].sent, run'[t].sent)
            /\ (Failed(t) /\ run'[t].pc # "done") => run'[t].sent = run[t].sent
            /\ (Failed(t) /\ run'[t].pc = "done") =>
                  replies'[t] = <<ErrorReply(run[t].outcome)>>]_vars

\* C9 witness: the first of two prompts was handed to sendPrompt, the send
\* button was never found, and the run is unwinding.
C9_Witness ==
    \E t \in TriggerIds :
        /\ run[t].outcome = ErrSendButton
        /\ Len(run[t].prompts) = 2
        /\ run[t].sent = <<run[t].prompts[1]>>

\* C10: a trigger has no reply while it is being handled and exactly one
\* afterwards, either {ok:true} or {error:text}; the reply of an accepted run
\* is sent when isProcessing is already false.
C10_ExactlyOneReply ==
    /\ [](\A t \in TriggerIds :
            /\ run[t].pc \in {"done", "rejected"} => Len(replies[t]) = 1
            /\ run[t].pc \notin {"done", "rejected"} => replies[t] = <<>>
            /\ \A i \in 1..Len(replies[t]) :
                  \/ replies[t][i] = OkReply
                  \/ \E m \in RunErrors \cup {ErrAlreadyRunning} :
                        replies[t][i] = ErrorReply(m))
    /\ [][\A t \in TriggerIds :
            (replies'[t] # replies[t] /\ run[t].pc # "unused") =>
                ~isProcessing /\ ~isProcessing']_vars

\* C10 witness: one accepted run was answered {ok:true} and another one with
\* an error.
C10_Witness ==
    \E t, u \in TriggerIds :
        /\ replies[t] = <<OkReply>>
        /\ replies[u] # <<>>
        /\ replies[u][1].error \in RunErrors

\* The run with locals r is inside sendPrompt(prompts[index]).
InSendPrompt(r) ==
    /\ r.ctx = "item"
    /\ r.pc \in {"ensureProbe", "ensureSleep", "inject", "injectSleep", "btnLoop",
                 "btnSleep", "enterSleep"}

\* The k-th progress event of a run over a list of the given length.
ExpectedNote(k, total) ==
    [phase |-> <<"Sending", "Waiting", "Done">>[((k - 1) % 3) + 1],
     index |-> ((k - 1) \div 3) + 1,
     total |-> total]

\* C11: the progress events of a run are Sending(i), Waiting(i), Done(i) for
\* i = 1, 2, ... in this order, each with the one-based index and the list
\* total; while sendPrompt(i) runs (or when it threw) Sending(i) is the last
\* event, while waitForCompletion runs (or when it threw) Waiting(i) is, and
\* Done(i) is there only once that waitForCompletion has returned.
C11_ProgressOrder ==
    \A t \in TriggerIds :
        LET r == run[t]
            n == Len(r.notes)
        IN  /\ r.notes = [k \in 1..n |-> ExpectedNote(k, Len(r.prompts))]
            /\ n <= 3 * Len(r.prompts)
            /\ n \div 3 <= r.waited
            /\ r.pc = "loopHead" => n = 3 * r.index
            /\ (InSendPrompt(r) \/ r.pc = "afterSend") => n = 3 * r.index + 1
            /\ (r.ctx = "item" /\ r.pc \in {"waitSettle", "waitPoll"}) =>
                  n = 3 * r.index + 2 /\ r.waited = r.index
            /\ r.pc = "afterWait" => n = 3 * r.index + 2 /\ r.waited = r.index + 1
            /\ r.pc = "itemSleep" => n = 3 * r.index + 3 /\ r.waited = r.index + 1
            /\ (r.ctx = "item" /\ r.outcome \in {ErrComposer, ErrSendButton}) =>
                  n = 3 * r.index + 1
            /\ (r.ctx = "item" /\ r.outcome = ErrTimeout) => n = 3 * r.index + 2
            /\ r.outcome = "ok" => n = 3 * Len(r.prompts)

\* C11 witness: the second of two prompts is done; six events were emitted,
\* the fourth being Sending (2/2).
C11_Witness ==
    \E t \in TriggerIds :
        /\ run[t].pc = "itemSleep"
        /\ run[t].index = 1
        /\ Len(run[t].notes) = 6
        /\ run[t].notes[4] = [phase |-> "Sending", index |-> 2, total |-> 2]
        /\ run[t].notes[6].phase = "Done"

\* C12: as long as the initial waitForCompletion of a run has not returned,
\* no prompt was handed to sendPrompt and no event was emitted (also when
\* that wait, or the ensureComposer before it, failed); the run leaves this
\* phase only by the second, idle, isStreaming() read after the settle delay.
C12_InitialIdleFirst ==
    /\ [](\A t \in TriggerIds :
            run[t].ctx = "init" => run[t].sent = <<>> /\ run[t].notes = <<>>)
    /\ [][\A t \in TriggerIds :
            (run[t].ctx = "init" /\ run'[t].ctx = "item") =>
                /\ run[t].pc = "waitSettle"
                /\ run'[t].pc = "loopHead"
                /\ run'[t].sent = <<>>]_vars

\* C12 witness: the initial wait of a run over two prompts timed out; nothing
\* was sent.
C12_Witness ==
    \E t \in TriggerIds :
        /\ run[t].pc = "finally"
        /\ run[t].ctx = "init"
        /\ run[t].outcome = ErrTimeout
        /\ Len(run[t].prompts) = 2
        /\ run[t].sent = <<>>

\* C24: however the deliveries of its notifications go, a run fails only by
\* the composer error after ten failed lookups or by the send-button error
\* after the retry lookup has timed out; it emits every notification of the
\* steps it has taken, and a run that is not failed by the page hands all
\* its prompts to sendPrompt and is answered {ok: true}; a failed run is
\* answered with its error.
C24_NotifyNeverFailsRun ==
    /\ [](\A t \in TriggerIds :
            /\ run[t].outcome \in {"none", "ok", ErrComposer, ErrSendButton}
            /\ replies[t] \in {<<>>, <<OkReply>>, <<ErrorReply(ErrComposer)>>,
                                <<ErrorReply(ErrSendButton)>>}
            /\ run[t].pc = "itemSleep" => Len(run[t].notes) = 3 * run[t].index + 3
            /\ run[t].pc = "done" => Len(replies[t]) = 1
            /\ run[t].outcome = "ok" =>
                  /\ run[t].sent = run[t].prompts
                  /\ run[t].waited = Len(run[t].prompts)
                  /\ Len(run[t].notes) = 3 * Len(run[t].prompts))
    /\ [][\A t \in TriggerIds :
            (run[t].outcome = "none" /\ Failed(t)') =>
                \/ /\ run'[t].outcome = ErrComposer
                   /\ run[t].pc = "ensureProbe"
                   /\ run[t].attempt = EnsureMaxAttempts
                \/ /\ run'[t].outcome = ErrSendButton
                   /\ run[t].pc = "btnLoop"
                   /\ run[t].phase = "retry"
                   /\ run[t].elapsed >= SendButtonTimeoutMs]_vars

\* C24 witness: a run over two prompts has completed although deliveries
\* failed in each of the three ways.
C24_Witness ==
    \E t \in TriggerIds :
        /\ run[t].pc = "settled"
        /\ run[t].outcome = "ok"
        /\ Len(run[t].prompts) = 2
        /\ {"noListener", "sendThrows", "noApi"} \subseteq deliveries

\* ======================================================= retry claims ==

\* The configured detectors classify the outcome of an attempt as a cooldown.
CooldownOutcome(o) ==
    IF o.kind = "return" THEN Detector(o.value) ELSE ErrorDetector(o.value)

LastOutcome == outcomes[Len(outcomes)]

\* C5: when attempt k is the first whose outcome is not a cooldown and it
\* returned v, the call returns v after the invocations 1..k and k-1 waits,
\* without the fallback; with jitter range [0,0] every wait is baseDelayMs.
C5_SuccessShortCircuit ==
    (/\ rpc = "done"
     /\ outcomes # <<>>
     /\ LastOutcome.kind = "return"
     /\ ~Detector(LastOutcome.value)
     /\ \A i \in 1..(Len(outcomes) - 1) : CooldownOutcome(outcomes[i]))
    => /\ result = [kind |-> "return", value |-> LastOutcome.value]
       /\ calls = [i \in 1..Len(outcomes) |-> i]
       /\ Len(waits) = Len(outcomes) - 1
       /\ fallbackCalls = 0
       /\ rOpts.jitterMsRange = <<0, 0>> =>
             \A i \in 1..Len(waits) : waits[i] = rOpts.baseDelayMs

\* C5 witness: a cooldown response, a cooldown error, then a normal value on
\* attempt 3, with jitter [0,0] and a base delay of 60.
C5_Witness ==
    /\ rpc = "done"
    /\ Len(outcomes) = 3
    /\ outcomes[1].kind = "return"
    /\ outcomes[2].kind = "throw"
    /\ result = [kind |-> "return", value |-> Response(Undefined)]
    /\ rOpts.jitterMsRange = <<0, 0>>
    /\ waits = <<60, 60>>

\* C6: when the operation throws an error the errorDetector does not
\* classify, the call rejects with that very error in the same step: no
\* invocation, wait, CooldownEvent or fallback call is added, and nothing
\* happens after the call has settled.
C6_UnrelatedNotRetried ==
    [][/\ (/\ Len(outcomes') = Len(outcomes) + 1
           /\ outcomes'[Len(outcomes')].kind = "throw"
           /\ ~ErrorDetector(outcomes'[Len(outcomes')].value))
          => /\ rpc' = "done"
             /\ result' = [kind |-> "throw", value |-> outcomes'[Len(outcomes')].value]
             /\ calls' = calls
             /\ waits' = waits
             /\ cooldownEvents' = cooldownEvents
             /\ fallbackCalls' = fallbackCalls
       /\ rpc # "done"]_vars

\* C6 witness: after one retried cooldown the operation threw an unrelated
\* error, which is the call's outcome although attempts and a fallback remain.
C6_Witness ==
    /\ rpc = "done"
    /\ Len(outcomes) = 2
    /\ rOpts.maxAttempts = 3
    /\ rOpts.fallback
    /\ rOpts.errorDetector = "default"
    /\ result = [kind |-> "throw", value |-> ErrorValue(OtherErrorText)]

\* C7: when every attempt ended in a cooldown and the fallback returns v, the
\* call returns v after maxAttempts invocations and maxAttempts - 1 waits.
C7_FallbackOnExhaustion ==
    (/\ rpc = "done"
     /\ rOpts.fallback
     /\ outcomes # <<>>
     /\ \A i \in 1..Len(outcomes) : CooldownOutcome(outcomes[i])
     /\ \A j \in 1..Len(fallbackOutcomes) : fallbackOutcomes[j].kind = "return")
    => /\ result = [kind |-> "return", value |-> FallbackValue]
       /\ Len(calls) = rOpts.maxAttempts
       /\ Len(waits) = rOpts.maxAttempts - 1
       /\ fallbackCalls = 1

\* C7 witness: a cooldown response then a cooldown error with maxAttempts = 2,
\* answered by the fallback value.
C7_Witness ==
    /\ rpc = "done"
    /\ rOpts.maxAttempts = 2
    /\ Len(outcomes) = 2
    /\ outcomes[1].kind = "return"
    /\ outcomes[2].kind = "throw"
    /\ Len(waits) = 1
    /\ result = [kind |-> "return", value |-> FallbackValue]

\* C8: when every attempt ended in a cooldown and there is no fallback, the
\* call rejects with an ImageCooldownError whose source and payload are those
\* of the last attempt, whichever detectors are configured.
C8_SourceMatchesLastFailure ==
    (/\ rpc = "done"
     /\ ~rOpts.fallback
     /\ outcomes # <<>>
     /\ \A i \in 1..Len(outcomes) : CooldownOutcome(outcomes[i]))
    => /\ result.kind = "throw"
       /\ result.value.type = "ImageCooldownError"
       /\ result.value.source = (IF LastOutcome.kind = "return" THEN "response" ELSE "error")
       /\ result.value.payload = LastOutcome.value

\* C18: every wait handed to the wait strategy is at least baseDelayMs, and
\* its jitter (the wait minus baseDelayMs) is the normalized minimum when the
\* normalized range has no span and lies between the normalized bounds
\* otherwise, whatever jitterMsRange was supplied.
C18_WaitAtLeastBase ==
    \A i \in 1..Len(waits) :
        LET nr == normalizeJitterRange(rOpts.jitterMsRange)
            jitter == waits[i] - rOpts.baseDelayMs
        IN  /\ waits[i] >= rOpts.baseDelayMs
            /\ IF nr[2] - nr[1] > 0 THEN nr[1] <= jitter /\ jitter <= nr[2]
               ELSE jitter = nr[1]

\* C19: once a call has read its options, the jitter range it works with is
\* [min, max] with min <= max and both >= 0, a reversed pair being swapped
\* and a pair with a NaN being [0, 0].
C19_JitterNormalized ==
    rpc # "start" =>
        LET range == rOpts.jitterMsRange
            nr == normalizeJitterRange(range)
        IN  /\ nr[1] <= nr[2]
            /\ nr[1] >= 0
            /\ nr[2] >= 0
            /\ (NaN \in {range[1], range[2]}) => nr = <<0, 0>>
            /\ (NaN \notin {range[1], range[2]} /\ range[2] < range[1]) =>
                  nr = <<range[2], range[1]>>

\* C20: with an onCooldown callback, the events are one per wait, in order;
\* event i carries attempt i, the duration of wait i, and the source and
\* payload of the outcome of attempt i (a returned value: "response", a
\* thrown error: "error"), which the detectors classify as a cooldown; when
\* a wait is pending the event of the attempt just made has been emitted.
C20_OneEventPerRetry ==
    rOpts.onCooldown =>
        /\ Len(cooldownEvents) = Len(waits)
        /\ Len(cooldownEvents) <= Len(outcomes)
        /\ \A i \in 1..Len(cooldownEvents) :
              /\ cooldownEvents[i].attempt = calls[i]
              /\ cooldownEvents[i].attempt = i
              /\ cooldownEvents[i].waitMs = waits[i]
              /\ cooldownEvents[i].source =
                    (IF outcomes[i].kind = "return" THEN "response" ELSE "error")
              /\ cooldownEvents[i].payload = outcomes[i].value
              /\ CooldownOutcome(outcomes[i])
        /\ rpc = "wait" => Len(cooldownEvents) = attempt /\ Len(outcomes) = attempt
        /\ rpc \in {"request", "fallback"} => Len(cooldownEvents) = Len(calls) - 1

\* C20 witness: a cooldown response and then a cooldown error were each
\* followed by an event with a randomly drawn jitter, and the second wait is
\* pending.
C20_Witness ==
    /\ rOpts.onCooldown
    /\ rpc = "wait"
    /\ Len(cooldownEvents) = 2
    /\ cooldownEvents[1].source = "response"
    /\ cooldownEvents[2].source = "error"
    /\ cooldownEvents[2].attempt = 2
    /\ cooldownEvents[2].waitMs = 66

\* The attempts made so far whose outcome the detectors classify as a cooldown.
CooldownAttempts == {i \in 1..Len(outcomes) : CooldownOutcome(outcomes[i])}

\* The generic error thrown after the loop (imageCooldown.ts:616).
GenericError ==
    [kind |-> "throw",
     value |-> ImageCooldownError(FailedAfterCooldownText, Undefined, [type |-> "other"])]

\* C21 as claimed: onCooldown has been invoked once for every attempt whose
\* outcome was classified as a cooldown.
C21_EventOnEveryCooldown ==
    rOpts.onCooldown => Len(cooldownEvents) = Cardinality(CooldownAttempts)

\* C21 as amended: onCooldown has been invoked once, in attempt order, for
\* every attempt classified as a cooldown that was not the last one allowed
\* (attempt < maxAttempts), in the step that computes the wait and before the
\* wait strategy runs; for a cooldown on the last attempt it is not invoked.
C21_EventOnEveryRetriedCooldown ==
    rOpts.onCooldown =>
        /\ Len(cooldownEvents)
              = Cardinality({i \in CooldownAttempts : i < rOpts.maxAttempts})
        /\ \A i \in CooldownAttempts :
              IF i < rOpts.maxAttempts
              THEN /\ Len(cooldownEvents) >= i
                   /\ cooldownEvents[i].attempt = i
                   /\ cooldownEvents[i].waitMs = waits[i]
              ELSE Len(cooldownEvents) < i

\* C21 witness: with maxAttempts = 2 a cooldown error was retried (one event)
\* and the cooldown of the second, last attempt ended the call without one.
C21_Witness ==
    /\ rOpts.onCooldown
    /\ rOpts.maxAttempts = 2
    /\ rpc = "done"
    /\ Len(outcomes) = 2
    /\ outcomes[1].kind = "throw"
    /\ CooldownAttempts = {1, 2}
    /\ Len(cooldownEvents) = 1

\* C22 as claimed: a call that has settled has invoked the operation at least
\* once and did not settle with the generic error thrown after the loop.
C22_GenericErrorUnreachable ==
    rpc = "done" => calls # <<>> /\ result # GenericError

\* C22 as amended: for maxAttempts >= 1 a call that has settled has invoked
\* the operation at least once and settled inside an iteration, not with the
\* generic error; for maxAttempts <= 0 the operation is never invoked and
\* the call settles with the generic error.
C22_GenericErrorOnlyWithoutAttempts ==
    rpc = "done" =>
        IF rOpts.maxAttempts >= 1
        THEN /\ calls # <<>>
             /\ Len(calls) <= rOpts.maxAttempts
             /\ Len(outcomes) = Len(calls)
             /\ result # GenericError
             /\ result.kind = "throw" => result.value.text # FailedAfterCooldownText
        ELSE calls = <<>> /\ result = GenericError

\* C22 witness: all three attempts of a call with maxAttempts = 3 ended in a
\* cooldown and the call settled in its third iteration.
C22_Witness ==
    /\ rpc = "done"
    /\ rOpts.maxAttempts = 3
    /\ Len(calls) = 3
    /\ CooldownAttempts = {1, 2, 3}
    /\ result.kind = "throw"
    /\ result.value.text = CooldownDetectedText

\* What the running call must settle with, given its own options and the
\* outcomes of its own operation and fallback invocations (imageCooldown.ts:
\* 562-616 read as a function of these).
ExpectedResult ==
    IF outcomes = <<>> THEN GenericError
    ELSE IF LastOutcome.kind = "return" /\ ~Detector(LastOutcome.value)
    THEN [kind |-> "return", value |-> LastOutcome.value]
    ELSE IF LastOutcome.kind = "throw" /\ ~ErrorDetector(LastOutcome.value)
    THEN [kind |-> "throw", value |-> LastOutcome.value]
    ELSE IF rOpts.fallback
    THEN [kind |-> fallbackOutcomes[Len(fallbackOutcomes)].kind,
          value |-> fallbackOutcomes[Len(fallbackOutcomes)].value]
    ELSE IF LastOutcome.kind = "throw"
    THEN [kind |-> "throw",
          value |-> ImageCooldownError(CooldownDetectedText, "error", LastOutcome.value)]
    ELSE IF ErrorDetector(ImageCooldownError(CooldownDetectedText, "response",
                                             LastOutcome.value))
    THEN [kind |-> "throw",
          value |-> ImageCooldownError(CooldownDetectedText, "error",
                       ImageCooldownError(CooldownDetectedText, "response",
                                          LastOutcome.value))]
    ELSE [kind |-> "throw",
          value |-> ImageCooldownError(CooldownDetectedText, "response",
                                       LastOutcome.value)]

\* C23: with two calls in flight, under every interleaving, the running call
\* has invoked its operation with 1, 2, ... in order, its loop variable is the
\* number of its own invocations, its waits are as many as its own retried
\* cooldowns, and once settled its outcome is the one its own options and
\* outcomes determine.
C23_Reentrant ==
    /\ calls = [i \in 1..Len(calls) |-> i]
    /\ rpc \in {"request", "wait", "fallback"} => attempt = Len(calls)
    /\ Len(outcomes) \in {Len(calls), Len(calls) - 1}
    /\ Len(calls) <= rOpts.maxAttempts
    /\ Len(waits) = Cardinality({i \in CooldownAttempts : i < rOpts.maxAttempts})
    /\ \A i \in 1..Len(waits) : waits[i] = rOpts.baseDelayMs
    /\ rpc = "done" => result = ExpectedResult

\* C23 witness: one call, with maxAttempts = 2, is suspended in its wait
\* after a first cooldown while the other, with maxAttempts = 1, has settled
\* with its terminal error.
C23_Witness ==
    /\ rpc = "wait"
    /\ rOpts.maxAttempts = 2
    /\ attempt = 1
    /\ other.rpc = "done"
    /\ other.rOpts.maxAttempts = 1
    /\ other.calls = <<1>>
    /\ other.result.kind = "throw"

\* A run of trigger t has been accepted and is not over.
Accepted(t) == run[t].pc \in SyncPcs \cup TimerPcs

\* C37: under fair timers every accepted queue run eventually ends, the
\* flag being released, and its trigger eventually receives its one reply,
\* whatever the page does in between.
C37_NoSilentHang ==
    \A t \in TriggerIds :
        Accepted(t) ~> (run[t].pc = "done" /\ Len(replies[t]) = 1)

\* C37 witness: a run whose two send-button lookups both ran into their
\* deadline has ended and its trigger has the reply with that error.
C37_Witness ==
    \E t \in TriggerIds :
        /\ run[t].pc = "done"
        /\ replies[t] = <<ErrorReply(ErrSendButton)>>

\* C34: the fallback is invoked at most once per call, only on attempt
\* maxAttempts and only after the outcome of that attempt was classified as
\* a cooldown; it is not invoked a second time when it fails.
C34_FallbackAtMostOnce ==
    /\ fallbackCalls <= 1
    /\ fallbackCalls >= 1 =>
          /\ attempt = rOpts.maxAttempts
          /\ Len(outcomes) = attempt
          /\ CooldownOutcome(outcomes[attempt])

\* C35: the operation is invoked with attempt = 1, 2, 3, ... consecutively,
\* at most maxAttempts times per call, and a wait happens only between two
\* invocations: while a wait is pending a further invocation is still to
\* come, and otherwise there is one wait fewer than invocations.
C35_ConsecutiveAttempts ==
    /\ calls = [i \in 1..Len(calls) |-> i]
    /\ Len(calls) <= rOpts.maxAttempts
    /\ rpc = "wait" => Len(waits) = Len(calls) /\ Len(calls) < rOpts.maxAttempts
    /\ rpc # "wait" => Len(waits) = Max(Len(calls) - 1, 0)

\* C35 witness: three invocations with two waits in between, the third being
\* the last one allowed, and the call has settled without a third wait.
C35_Witness ==
    /\ rpc = "done"
    /\ rOpts.maxAttempts = 3
    /\ calls = <<1, 2, 3>>
    /\ Len(waits) = 2
    /\ CooldownOutcome(outcomes[3])

====
